---- MODULE Spec2Model ----
(***************************************************************************)
(* Tool-calling orchestration loop of the Director Agent.                  *)
(*                                                                         *)
(* Three entry points drive the same loop:                                 *)
(*   DirectorAgent.process_query                  (src/main.py)            *)
(*   GradioDirectorAgent.process_query_with_chat  (src/app.py)             *)
(*   GradioDirectorAgent.process_query_for_gradio (src/app.py)             *)
(* The decision engine (Gemini) is external: each call to it either raises *)
(* or returns a response chosen from a small set.                          *)
(*                                                                         *)
(* Python values are modelled as records.  None is NoneVal, a raised       *)
(* exception is a record of kind "raise".  A dict with optional keys is a  *)
(* record whose DOMAIN holds the keys that are present.                    *)
(* The Chinese message literals of the source are rendered in ASCII.       *)
(*                                                                         *)
(* Specifications:                                                         *)
(*   Spec          the loop against an unconstrained decision engine       *)
(*   SpecStub      the loop against an engine that never stops asking      *)
(*   SpecScript    the loop against a scripted engine of a few rounds,     *)
(*                 with several lookups, selections and terminal calls     *)
(*   SpecChain     the loop against the chain lookup, selection, terminal  *)
(*   SpecLookup    the loop against one batch of lookups, on any store     *)
(*   SpecSelect    the loop against one batch of selections, on any store  *)
(*   SpecArgs      the loop against calls that lack or add arguments       *)
(*   SpecStartup   the program from the start of the interpreter: catalog, *)
(*                 credentials, agent, then requests                       *)
(*   SpecProgram   the interactive loop of main() and the Gradio page with *)
(*                 two browser sessions, around the agent                  *)
(*   SpecComposer  ResponseGeneratorTool.generate_response_stream          *)
(*                 (src/tools/response_generator_tool.py), step by step    *)
(***************************************************************************)
EXTENDS Integers, Sequences, FiniteSets, TLC

\* ---------------------------------------------------------------- bounds
\* longest batch of tool calls one decision response may carry
MaxBatch == 3

\* ------------------------------------------------------ program constants
\* max_iterations = 10
max_iterations == 10

\* ------------------------------------------------------------ Python values
NoneVal == [kind |-> "None"]

Raise(e) == [kind |-> "raise", exc |-> e]

IsRaise(v) == v.kind = "raise"

\* dict.get(key, default)
Get(d, k, default) == IF k \in DOMAIN d THEN d[k] ELSE default

\* ------------------------------------------------------------ tool names
KnowledgeTool == "get_knowledge_level"

SelectTool == "select_relevant_files"

TerminalTool == "generate_detailed_response"

\* a name the decision engine made up
BogusTool == "search_web"

\* ------------------------------------------------------------ the stores
\* memory.json as loaded by MemoryTool._load_memory.  A subject entry that
\* is not a JSON object is the record [notdict |-> TRUE].
GoodMemory ==
    [user_id |-> "user_001",
     knowledge_levels |->
        [s \in {"astronomy"} |->
            [level |-> "beginner", detailed_description |-> "knows the planets"]]]

MalformedMemory ==
    [user_id |-> "user_001",
     knowledge_levels |-> [s \in {"astronomy"} |-> [notdict |-> TRUE]]]

\* metadata.json as loaded by SelectFileTool._load_metadata
SunFile ==
    [title |-> "Sun.pdf", file_path |-> "files/Sun.pdf", file_uri |-> "uri/sun",
     content_summary |-> "structure of the sun", topics |-> <<"astronomy">>]

GoodMetadata == [files |-> <<SunFile>>]

\* a store whose entry has no file_path and no file_uri
MalformedMetadata ==
    [files |-> <<[title |-> "Sun.pdf", content_summary |-> "structure of the sun"]>>]

\* str.lower() on the titles of the model
Lower(t) ==
    CASE t = "Sun.pdf" -> "sun.pdf"
      [] t = "SUN.PDF" -> "sun.pdf"
      [] t = "Moon.pdf" -> "moon.pdf"
      [] t = "Mars.pdf" -> "mars.pdf"
      [] OTHER -> t

\* ------------------------------------------------------------ MemoryTool
NotFoundDescription(subject) == "no knowledge level information for " \o subject

\* one iteration of the for loop of get_knowledge_level
SubjectInfo(knowledge_levels, subject) ==
    IF subject \in DOMAIN knowledge_levels
    THEN [level |-> Get(knowledge_levels[subject], "level", "unknown"),
          detailed_description |->
              Get(knowledge_levels[subject], "detailed_description", "")]
    ELSE [level |-> "unknown",
          detailed_description |-> NotFoundDescription(subject)]

SeqRange(s) == {s[k] : k \in 1..Len(s)}

\* MemoryTool.get_knowledge_level: .get on an entry that is not a dict
\* raises AttributeError
get_knowledge_level(memory, subjects) ==
    LET knowledge_levels == Get(memory, "knowledge_levels", <<>>)
        asked == SeqRange(subjects)
    IN IF \E s \in asked : s \in DOMAIN knowledge_levels
                            /\ "notdict" \in DOMAIN knowledge_levels[s]
       THEN Raise("AttributeError")
       ELSE [kind |-> "knowledge",
             user_id |-> Get(memory, "user_id", "unknown"),
             subjects_info |-> [s \in asked |-> SubjectInfo(knowledge_levels, s)]]

\* a lookup that takes the subjects it reports out of the store
store_after_lookup_pop(memory, subjects) ==
    IF "knowledge_levels" \in DOMAIN memory
    THEN [memory EXCEPT !.knowledge_levels =
            [s \in (DOMAIN @) \ SeqRange(subjects) |-> @[s]]]
    ELSE memory

\* memory_data after get_knowledge_level(subjects): the lookup reads
\* memory_data with .get and "in" and builds its result from fresh dicts
store_after_lookup(memory, subjects) == memory

\* ---------------------------------------------------------- SelectFileTool
\* title_map: the last entry with a given lower-cased title wins
TitleMapHas(files, tl) == \E k \in 1..Len(files) : Lower(files[k].title) = tl

\* a title_map in which the first entry with a given lower-cased title stays
TitleMapGet_first(files, tl) ==
    LET ks == {k \in 1..Len(files) : Lower(files[k].title) = tl}
    IN files[CHOOSE k \in ks : \A j \in ks : k <= j]

\* title_map[title_lower]: a later entry of the dict comprehension replaces
\* an earlier one under the same key
TitleMapGet(files, tl) ==
    LET ks == {k \in 1..Len(files) : Lower(files[k].title) = tl}
    IN files[CHOOSE k \in ks : \A j \in ks : j <= k]

SelectedEntry(file_info) ==
    [title |-> file_info.title,
     file_path |-> file_info.file_path,
     file_uri |-> file_info.file_uri,
     content_summary |-> Get(file_info, "content_summary", ""),
     topics |-> Get(file_info, "topics", <<>>)]

RECURSIVE SelectLoop(_, _, _, _)
\* the for loop of select_files_by_titles from position k on
SelectLoop(files, titles, k, acc) ==
    IF k > Len(titles) THEN acc
    ELSE LET tl == Lower(titles[k])
         IN IF TitleMapHas(files, tl)
            THEN SelectLoop(files, titles, k + 1,
                    [acc EXCEPT !.selected_files =
                        Append(@, SelectedEntry(TitleMapGet(files, tl)))])
            ELSE SelectLoop(files, titles, k + 1,
                    [acc EXCEPT !.not_found = Append(@, titles[k])])

\* select_files_by_titles that refuses a title the store does not have
select_files_by_titles_strict(meta, titles) ==
    LET files == Get(meta, "files", <<>>)
    IN IF \E k \in 1..Len(titles) : ~TitleMapHas(files, Lower(titles[k]))
       THEN Raise("KeyError")
       ELSE LET r == SelectLoop(files, titles, 1,
                        [selected_files |-> <<>>, not_found |-> <<>>])
            IN [kind |-> "selection",
                selected_files |-> r.selected_files,
                not_found |-> r.not_found,
                total_selected |-> Len(r.selected_files)]

\* SelectFileTool.select_files_by_titles: file_info["title"], ["file_path"]
\* and ["file_uri"] raise KeyError on an entry that lacks the key
select_files_by_titles(meta, titles) ==
    LET files == Get(meta, "files", <<>>)
        hit(k) == TitleMapHas(files, Lower(titles[k]))
    IN IF \E k \in 1..Len(files) : "title" \notin DOMAIN files[k]
       THEN Raise("KeyError")
       ELSE IF \E k \in 1..Len(titles) :
                 /\ hit(k)
                 /\ ~ ({"file_path", "file_uri"} \subseteq
                          DOMAIN TitleMapGet(files, Lower(titles[k])))
       THEN Raise("KeyError")
       ELSE LET r == SelectLoop(files, titles, 1,
                        [selected_files |-> <<>>, not_found |-> <<>>])
            IN [kind |-> "selection",
                selected_files |-> r.selected_files,
                not_found |-> r.not_found,
                total_selected |-> Len(r.selected_files)]

\* ------------------------------------------------- ResponseGeneratorTool
\* "抱歉，生成响应时出现错误: {e}"
GenerationErrorMsg == "sorry, an error occurred while generating the response"

\* ------------------------------------------------------------ tool calls
KLCall == [name |-> KnowledgeTool, args |-> [subjects |-> <<"astronomy">>]]

SelCall == [name |-> SelectTool, args |-> [file_titles |-> <<"Sun.pdf">>]]

GenCall ==
    [name |-> TerminalTool,
     args |-> [user_query |-> "explain the sun",
               use_knowledge_level |-> TRUE, use_selected_files |-> TRUE]]

BogusCall == [name |-> BogusTool, args |-> <<>>]

\* the responses of the decision engine: a text, or a batch of function
\* calls.  response.text is "" when the response has no text part (None in
\* Python)
Responses ==
    LET Calls == {KLCall, SelCall, GenCall, BogusCall}
        Batches == UNION {[1..n -> Calls] : n \in 1..MaxBatch}
    IN {[text |-> t, calls |-> <<>>] : t \in {"hello", ""}}
       \cup {[text |-> "", calls |-> b] : b \in Batches}

NoResponse == [text |-> "", calls |-> <<>>]

\* the exception a failing decision-engine call raises
DecisionError == "APIError"

\* the user queries submitted; the second is blank
Queries == {"explain the sun", " "}

\* not user_query or not user_query.strip()
\* a test that lets whitespace through
IsBlank_empty(q) == q = ""

\* not user_query or not user_query.strip()
IsBlank(q) == q \in {"", " "}

\* --------------------------------------------------------- execute_function
\* knowledge_info that disregards use_knowledge_level
knowledge_info_always(function_call, knowledge_level_result) ==
    knowledge_level_result

\* knowledge_info handed to the composer
knowledge_info(function_call, knowledge_level_result) ==
    IF Get(function_call.args, "use_knowledge_level", FALSE)
    THEN knowledge_level_result ELSE NoneVal

\* files_info handed to the composer
files_info(function_call, selected_files_result) ==
    IF Get(function_call.args, "use_selected_files", FALSE)
       /\ selected_files_result # NoneVal
    THEN [kind |-> "files",
          files |-> Get(selected_files_result, "selected_files", <<>>)]
    ELSE NoneVal

\* execute_function that raises on a name it does not know
execute_function_strict(memory, meta, function_call, detailed_response) ==
    IF function_call.name = KnowledgeTool
    THEN get_knowledge_level(memory, Get(function_call.args, "subjects", <<>>))
    ELSE IF function_call.name = SelectTool
    THEN select_files_by_titles(meta, Get(function_call.args, "file_titles", <<>>))
    ELSE IF function_call.name = TerminalTool
    THEN [kind |-> "generated",
          response |-> detailed_response,
          used_knowledge_level |-> Get(function_call.args, "use_knowledge_level", FALSE),
          used_files |-> Get(function_call.args, "use_selected_files", FALSE),
          response_length |-> Len(detailed_response)]
    ELSE Raise("ValueError")

\* execute_function that checks the required argument of a lookup and of a
\* selection before dispatch
execute_function_validating(memory, meta, function_call, detailed_response) ==
    IF \/ /\ function_call.name = KnowledgeTool
          /\ "subjects" \notin DOMAIN function_call.args
       \/ /\ function_call.name = SelectTool
          /\ "file_titles" \notin DOMAIN function_call.args
    THEN [kind |-> "error", status |-> "Error", message |-> "InvalidArguments"]
    ELSE execute_function_strict(memory, meta, function_call, detailed_response)

\* execute_function; detailed_response is what generate_response_stream
\* returns when the call is the terminal one.  A name that matches no
\* branch falls through to "return None".
execute_function(memory, meta, function_call, detailed_response) ==
    IF function_call.name = KnowledgeTool
    THEN get_knowledge_level(memory, Get(function_call.args, "subjects", <<>>))
    ELSE IF function_call.name = SelectTool
    THEN select_files_by_titles(meta, Get(function_call.args, "file_titles", <<>>))
    ELSE IF function_call.name = TerminalTool
    THEN [kind |-> "generated",
          response |-> detailed_response,
          used_knowledge_level |-> Get(function_call.args, "use_knowledge_level", FALSE),
          used_files |-> Get(function_call.args, "use_selected_files", FALSE),
          response_length |-> Len(detailed_response)]
    ELSE NoneVal

\* ------------------------------------------------------------------ state
VARIABLES
    memory_data,            \* MemoryTool.memory_data
    metadata,               \* SelectFileTool.metadata
    entry,                  \* the entry point serving the current request
    chat,                   \* TRUE iff the request runs on a chat session
    user_query,
    pc,                     \* position in the entry point
    iteration,
    response,               \* the decision response in hand
    i,                      \* position of the for loop in function_calls_list
    function_responses,
    knowledge_level_result,
    selected_files_result,
    final_response,         \* process_query_for_gradio only
    \* what the caller gets
    outcome,                \* "none", "invalid", "text", "terminal", "limit", "error", "crash"
    answer,                 \* the final answer returned (printed by process_query)
    diagnostic,             \* the error message returned or printed, "" if none
    exc,                    \* the exception that ended the request, "" if none
    \* observations of the current request
    decideCalls,            \* decision-engine calls issued
    examined,               \* decision responses the loop has looked at
    rounds,                 \* batches of tool calls the loop has started
    executed,               \* positions of the current batch handed to execute_function
    composerCalls,          \* calls of generate_response_stream
    termResponse,           \* what the first of them returned
    composerArgs,           \* the arguments of the latest of them
    toolTurns,              \* function responses handed over to the session
    \* the session log
    keep_turns,             \* TRUE iff toolTurns is kept in this behaviour
    \* ResponseGeneratorTool
    generator,              \* the composer and its running call
    \* the program around the agent
    process,                \* start-up: environment, catalog, exit status
    sessions                \* the chat sessions of the front end

stores == <<memory_data, metadata>>

request == <<entry, chat, user_query>>

locals == <<iteration, response, i, function_responses,
            knowledge_level_result, selected_files_result, final_response>>

result == <<outcome, answer, diagnostic, exc>>

observed == <<decideCalls, examined, rounds, executed, composerCalls, termResponse,
              composerArgs, toolTurns>>

loop == <<stores, request, pc, locals, result, observed, keep_turns>>

front == <<process, sessions>>

vars == <<loop, generator, front>>

ProcessQuery == "process_query"

WithChat == "process_query_with_chat"

ForGradio == "process_query_for_gradio"

EntryPoints == {ProcessQuery, WithChat, ForGradio}

\* "⚠️ 达到最大迭代次数限制"
LimitMsg == "iteration limit reached"

\* "抱歉，我无法生成回复。"
NoReplyMsg == "sorry, I cannot generate a reply"

\* "⚠️ 请输入有效的问题"
InvalidMsg == "please enter a valid question"

\* f"❌ 处理过程中出现错误: {str(e)}"
ErrorMsg(e) == "error while processing: " \o e

\* f"\n❌ 发生错误: {str(e)}\n" printed by the interactive loop of main()
MainErrorMsg(e) == "an error occurred: " \o e

\* the function calls extracted from the parts of the response
function_calls_list == response.calls

\* a ResponseGeneratorTool on which generate_response_stream is not running
\* (chat: self.chat is not None; turns: the prompts self.chat was sent;
\* calls: the calls of generate_response_stream made so far)
GeneratorIdle ==
    [pc |-> "idle", chat |-> FALSE, turns |-> <<>>, conversation_history |-> <<>>,
     calls |-> 0]

\* the agent after __init__, before its first request
\* the agent taken on its own: nothing of the program around it is followed
NoProcess == [pc |-> "none"]

NoSessions == <<>>

NoFrontEnd ==
    /\ process = NoProcess
    /\ sessions = NoSessions

InitLoop ==
    /\ entry = "none"
    /\ chat = FALSE
    /\ user_query = ""
    /\ pc = "idle"
    /\ iteration = 0
    /\ response = NoResponse
    /\ i = 1
    /\ function_responses = <<>>
    /\ knowledge_level_result = NoneVal
    /\ selected_files_result = NoneVal
    /\ final_response = ""
    /\ outcome = "none"
    /\ answer = ""
    /\ diagnostic = ""
    /\ exc = ""
    /\ decideCalls = 0
    /\ examined = 0
    /\ rounds = 0
    /\ executed = <<>>
    /\ composerCalls = 0
    /\ termResponse = ""
    /\ composerArgs = NoneVal
    /\ toolTurns = 0

Init ==
    /\ memory_data \in {GoodMemory, MalformedMemory}
    /\ metadata \in {GoodMetadata, MalformedMetadata}
    /\ InitLoop
    /\ keep_turns = FALSE
    /\ generator = GeneratorIdle
    /\ NoFrontEnd

\* the request is over: the entry point returns (or prints) a and d
Finish(o, a, d, e) ==
    /\ pc' = IF o = "crash" THEN "crashed" ELSE "done"
    /\ outcome' = o
    /\ answer' = a
    /\ diagnostic' = d
    /\ exc' = e

\* Throw without the except clause of process_query_with_chat
Throw_unhandled(e) ==
    IF entry = ProcessQuery
    THEN IF chat THEN Finish("error", "", MainErrorMsg(e), e)
                 ELSE Finish("crash", "", "", e)
    ELSE IF entry = WithChat
    THEN Finish("crash", "", "", e)
    ELSE Finish("error", "", ErrorMsg(e), e)

\* Throw with a retry of a failed decision call: the exception is noted and
\* the call stays pending
Throw_retry(e) ==
    IF e = DecisionError /\ decideCalls < max_iterations + 2
    THEN /\ exc' = e
         /\ UNCHANGED <<pc, outcome, answer, diagnostic>>
    ELSE IF entry = ProcessQuery
    THEN IF chat THEN Finish("error", "", MainErrorMsg(e), e)
                 ELSE Finish("crash", "", "", e)
    ELSE IF entry = WithChat
    THEN Finish("error", ErrorMsg(e), ErrorMsg(e), e)
    ELSE Finish("error", "", ErrorMsg(e), e)

\* an exception e is raised inside the entry point.  process_query has no
\* handler: the interactive loop of main() catches it, prints a message and
\* prompts again; a single-shot run dies with the traceback.  The two Gradio
\* entry points catch it and return the message (process_query_for_gradio in
\* the first slot of its pair, with "" as the final reply).
Throw(e) ==
    IF entry = ProcessQuery
    THEN IF chat THEN Finish("error", "", MainErrorMsg(e), e)
                 ELSE Finish("crash", "", "", e)
    ELSE IF entry = WithChat
    THEN Finish("error", ErrorMsg(e), ErrorMsg(e), e)
    ELSE Finish("error", "", ErrorMsg(e), e)

\* a request that goes on with what the request before it has accumulated
initial_result_kept(held) == held

\* knowledge_level_result = None, selected_files_result = None
initial_result(held) == NoneVal

\* a request comes in.  process_query runs with a chat from the interactive
\* loop of main() and without one in single-shot mode, after which the
\* process ends.  A blank query is turned away by the two Gradio entry
\* points; main() never hands one to process_query.
Accept(e, c, q) ==
    /\ pc \in {"idle", "done"}
    /\ ~ (pc = "done" /\ entry = ProcessQuery /\ ~chat)
    /\ e = ForGradio => ~c
    /\ e = ProcessQuery => ~IsBlank(q)
    /\ entry' = e
    /\ chat' = c
    /\ user_query' = q
    /\ iteration' = 0
    /\ response' = NoResponse
    /\ i' = 1
    /\ function_responses' = <<>>
    /\ knowledge_level_result' = initial_result(knowledge_level_result)
    /\ selected_files_result' = initial_result(selected_files_result)
    /\ final_response' = ""
    /\ decideCalls' = 0
    /\ examined' = 0
    /\ rounds' = 0
    /\ executed' = <<>>
    /\ composerCalls' = 0
    /\ termResponse' = ""
    /\ composerArgs' = NoneVal
    /\ toolTurns' = 0
    /\ IF e # ProcessQuery /\ IsBlank(q)
       THEN /\ pc' = "done"
            /\ outcome' = "invalid"
            /\ answer' = IF e = WithChat THEN InvalidMsg ELSE ""
            /\ diagnostic' = InvalidMsg
            /\ exc' = ""
       ELSE /\ pc' = IF e = ForGradio THEN "loop" ELSE "decide0"
            /\ outcome' = "none"
            /\ answer' = ""
            /\ diagnostic' = ""
            /\ exc' = ""
    /\ UNCHANGED <<stores, keep_turns, generator>>

\* a request comes in while the front end is not followed
StartRequest(e, c, q) ==
    /\ Accept(e, c, q)
    /\ UNCHANGED front

\* one call of the decision engine: chat.send_message or
\* client.models.generate_content.  It raises or returns a response.  The
\* function responses of the last batch go out with the call (into the chat
\* or the conversation history); the loop starts a fresh list for the batch
\* of the new response.
\* decide0: the call before the loop; send: the call that hands over the
\* function responses; call: the call at the top of the loop body of
\* process_query_for_gradio.
DecideOn(R, Sent(_)) ==
    /\ pc \in {"decide0", "send", "call"}
    /\ decideCalls' = decideCalls + 1
    /\ \/ /\ Throw(DecisionError)
          /\ UNCHANGED <<locals, executed, toolTurns, sessions>>
       \/ \E r \in R :
            /\ response' = r
            /\ sessions' = Sent(r)
            /\ pc' = IF pc = "call" THEN "examine" ELSE "loop"
            /\ i' = 1
            /\ toolTurns' = IF keep_turns /\ pc = "send"
                             THEN toolTurns + Len(function_responses)
                             ELSE toolTurns
            /\ function_responses' = <<>>
            /\ executed' = <<>>
            /\ UNCHANGED <<iteration, knowledge_level_result,
                           selected_files_result, final_response, result>>
    /\ UNCHANGED <<stores, request, examined, rounds, composerCalls, termResponse,
                   composerArgs, keep_turns, generator, process>>

\* a decision call while the front end is not followed
DecideFrom(R) == DecideOn(R, LAMBDA r : sessions)

\* the decision engine may answer with any response of the model
Decide == DecideFrom(Responses)

\* the loop test with an off-by-one slip
loop_continues_slip(it) == it <= max_iterations

\* the test of "while iteration < max_iterations"
loop_continues(it) == it < max_iterations

\* a counter that is reset by every round
next_iteration_reset(it) == 1

\* iteration += 1
next_iteration(it) == it + 1

\* while iteration < max_iterations: iteration += 1, and what follows the
\* loop when the test fails
LoopTest ==
    /\ pc = "loop"
    /\ IF loop_continues(iteration)
       THEN /\ iteration' = next_iteration(iteration)
            /\ pc' = IF entry = ForGradio THEN "call" ELSE "examine"
            /\ UNCHANGED result
       ELSE /\ iteration' = iteration
            /\ IF entry = ForGradio
               THEN Finish("limit", final_response, "", "")
               ELSE Finish("limit", LimitMsg, "", "")
    /\ UNCHANGED <<stores, request, response, i, function_responses,
                   knowledge_level_result, selected_files_result, final_response,
                   observed, keep_turns, generator, front>>

\* print(response.text) prints None as "None"
Printed(text) == IF text = "" THEN "None" ELSE text

\* final_text that always falls back to the apology of process_query_with_chat
final_text_apology(e, text, final) ==
    IF e = ProcessQuery THEN Printed(text) ELSE NoReplyMsg

\* final_text that gives the apology in process_query_for_gradio as well
final_text_alike(e, text, final) ==
    IF e = ProcessQuery THEN Printed(text)
    ELSE IF text # "" THEN text ELSE NoReplyMsg

\* the final reply when the response carries no function call:
\* process_query prints response.text; process_query_with_chat returns it,
\* or an apology when it is empty; process_query_for_gradio assigns it to
\* final_response only when it is non-empty
final_text(e, text, final) ==
    IF e = ProcessQuery THEN Printed(text)
    ELSE IF e = WithChat THEN (IF text # "" THEN text ELSE NoReplyMsg)
    ELSE (IF text # "" THEN text ELSE final)

\* the function calls are extracted; without any, the text of the response
\* is the final reply
Examine ==
    /\ pc = "examine"
    /\ examined' = examined + 1
    /\ IF function_calls_list = <<>>
       THEN /\ Finish("text", final_text(entry, response.text, final_response),
                      "", "")
            /\ UNCHANGED <<i, function_responses, rounds, executed>>
       ELSE /\ pc' = "exec"
            /\ i' = 1
            /\ function_responses' = <<>>
            /\ rounds' = rounds + 1
            /\ executed' = <<>>
            /\ UNCHANGED result
    /\ UNCHANGED <<stores, request, iteration, response, knowledge_level_result,
                   selected_files_result, final_response, decideCalls,
                   composerCalls, termResponse, composerArgs, toolTurns,
                   keep_turns, generator, front>>

\* accumulate that keeps the first result of a tool
accumulate_first(tool, name, res, held) ==
    IF name = tool /\ held = NoneVal THEN res ELSE held

\* "if function_name == tool: <tool>_result = result": the result of a call
\* of the tool replaces the one held
accumulate(tool, name, res, held) == IF name = tool THEN res ELSE held

\* the keyword arguments execute_function passes to generate_response_stream
composer_arguments(function_call, query, knowledge, selection) ==
    [user_query |-> Get(function_call.args, "user_query", query),
     knowledge_level_info |-> knowledge_info(function_call, knowledge),
     selected_files |-> files_info(function_call, selection)]

\* a function response put in front of those of the batch
record_response_front(responses, name, res) ==
    <<[name |-> name, response |-> res]>> \o responses

\* function_responses.append(Part.from_function_response(name, response))
record_response(responses, name, res) ==
    Append(responses, [name |-> name, response |-> res])

\* any(fc.name == "generate_detailed_response" for fc in function_calls_list)
AnyTerminal(calls) == \E k \in 1..Len(calls) : calls[k].name = TerminalTool

\* one pass of "for function_call in function_calls_list".
\* process_query and process_query_with_chat return from inside the loop on
\* the terminal call; process_query_for_gradio records final_response, goes
\* on with the batch and breaks after it, before the function responses of
\* the batch are appended to conversation_history.
ExecWith(Composed(_, _)) ==
    /\ pc = "exec"
    /\ i <= Len(function_calls_list)
    /\ executed' = Append(executed, i)
    /\ LET function_call == function_calls_list[i]
           terminal == function_call.name = TerminalTool
           \* what generate_response_stream can return: the concatenated
           \* chunks of the stream (possibly none), or the error notice of
           \* its except clause
           GenerationOutcomes ==
               {"the sun has a core and a corona", "", GenerationErrorMsg}
       IN \E detailed_response \in
                IF terminal THEN GenerationOutcomes ELSE {""} :
            LET res == execute_function(memory_data, metadata, function_call,
                                        detailed_response)
            IN /\ composerCalls' = IF terminal THEN composerCalls + 1
                                               ELSE composerCalls
               /\ termResponse' = IF terminal /\ composerCalls = 0
                                  THEN detailed_response ELSE termResponse
               /\ composerArgs' =
                    IF terminal
                    THEN composer_arguments(function_call, user_query,
                                            knowledge_level_result,
                                            selected_files_result)
                    ELSE composerArgs
               /\ generator' \in IF terminal
                                 THEN Composed(composerArgs', detailed_response)
                                              ELSE {generator}
               /\ memory_data' =
                    IF function_call.name = KnowledgeTool
                    THEN store_after_lookup(memory_data,
                            Get(function_call.args, "subjects", <<>>))
                    ELSE memory_data
               /\ IF IsRaise(res)
                  THEN /\ Throw(res.exc)
                       /\ UNCHANGED <<locals, toolTurns>>
                  ELSE /\ knowledge_level_result' =
                            accumulate(KnowledgeTool, function_call.name, res,
                                       knowledge_level_result)
                       /\ selected_files_result' =
                            accumulate(SelectTool, function_call.name, res,
                                       selected_files_result)
                       /\ IF terminal /\ entry # ForGradio
                          THEN /\ Finish("terminal", res.response, "", "")
                               /\ UNCHANGED <<i, function_responses, final_response,
                                              toolTurns>>
                          ELSE /\ final_response' = IF terminal THEN res.response
                                                                ELSE final_response
                               /\ function_responses' =
                                    record_response(function_responses,
                                                    function_call.name, res)
                               /\ i' = i + 1
                               /\ IF i < Len(function_calls_list)
                                  THEN /\ pc' = "exec"
                                       /\ UNCHANGED <<result, toolTurns>>
                                  ELSE IF entry # ForGradio
                                  THEN /\ pc' = "send"
                                       /\ UNCHANGED <<result, toolTurns>>
                                  ELSE IF AnyTerminal(function_calls_list)
                                  THEN /\ Finish("terminal", final_response', "", "")
                                       /\ UNCHANGED toolTurns
                                  ELSE /\ pc' = "loop"
                                       /\ toolTurns' =
                                            IF keep_turns
                                            THEN toolTurns + Len(function_responses')
                                            ELSE toolTurns
                                       /\ UNCHANGED result
                       /\ UNCHANGED <<iteration, response>>
    /\ UNCHANGED <<metadata, request, decideCalls, examined, rounds, keep_turns,
                   front>>

\* a batch step while the composer is not followed
ExecCall == ExecWith(LAMBDA args, full_response : {generator})

Next ==
    \/ \E e \in EntryPoints, c \in BOOLEAN, q \in Queries : StartRequest(e, c, q)
    \/ Decide
    \/ LoopTest
    \/ Examine
    \/ ExecCall

Spec == Init /\ [][Next]_vars

TypeOK ==
    /\ pc \in {"idle", "decide0", "loop", "call", "examine", "exec", "send",
               "done", "crashed"}
    /\ iteration \in 0..max_iterations
    /\ response \in Responses
    /\ i \in 1..(MaxBatch + 1)

\* ------------------------------------------------ the stubbed decision engine
\* a decision engine that answers every call with a non-empty batch of
\* non-terminal tool calls, serving one request against well-formed stores
DecideStub ==
    /\ Decide
    /\ exc' = ""
    /\ response'.calls # <<>>
    /\ ~AnyTerminal(response'.calls)

StartStub ==
    /\ pc = "idle"
    /\ \E e \in EntryPoints, c \in BOOLEAN : StartRequest(e, c, "explain the sun")

InitStub ==
    /\ Init
    /\ memory_data = GoodMemory
    /\ metadata = GoodMetadata

NextStub ==
    \/ StartStub
    \/ DecideStub
    \/ LoopTest
    \/ Examine
    \/ ExecCall

SpecStub == InitStub /\ [][NextStub]_vars /\ WF_vars(NextStub)

\* ------------------------------------------------ the scripted decision engine
\* longest batch of a scripted response
ScriptBatch == 2

\* tool rounds of a script
MaxRounds == 3

\* a second lookup, of a subject the store does not hold
KLCall2 == [name |-> KnowledgeTool, args |-> [subjects |-> <<"calculus">>]]

\* a second selection, of a title the metadata does not hold
SelCall2 == [name |-> SelectTool, args |-> [file_titles |-> <<"Moon.pdf">>]]

\* terminal calls that ask for one of the two accumulated results only
GenCallKnowledge ==
    [name |-> TerminalTool,
     args |-> [user_query |-> "explain the sun",
               use_knowledge_level |-> TRUE, use_selected_files |-> FALSE]]

GenCallFiles ==
    [name |-> TerminalTool,
     args |-> [user_query |-> "explain the sun",
               use_knowledge_level |-> FALSE, use_selected_files |-> TRUE]]

\* the responses of the script: a text, or a batch of well-formed calls
ScriptResponses ==
    LET ScriptCalls ==
            {KLCall, KLCall2, SelCall, SelCall2, GenCall, GenCallKnowledge,
             GenCallFiles}
        ScriptBatches == UNION {[1..n -> ScriptCalls] : n \in 1..ScriptBatch}
    IN {[text |-> "hello", calls |-> <<>>]}
       \cup {[text |-> "", calls |-> b] : b \in ScriptBatches}

\* a decision engine that follows a script: it never fails, it asks for tools
\* of the agent with well-formed arguments, and after MaxRounds rounds of
\* tool calls it answers with a text
DecideScript ==
    /\ DecideFrom(IF rounds >= MaxRounds
                  THEN {[text |-> "hello", calls |-> <<>>]}
                  ELSE ScriptResponses)
    /\ exc' = ""

StartScript ==
    /\ pc = "idle"
    /\ \E e \in EntryPoints, c \in BOOLEAN : StartRequest(e, c, "explain the sun")

\* one request against well-formed stores, the session log kept
InitScript ==
    /\ InitLoop
    /\ memory_data = GoodMemory
    /\ metadata = GoodMetadata
    /\ keep_turns = TRUE
    /\ generator = GeneratorIdle
    /\ NoFrontEnd

NextScript ==
    \/ StartScript
    \/ DecideScript
    \/ LoopTest
    \/ Examine
    \/ ExecCall

SpecScript == InitScript /\ [][NextScript]_vars /\ WF_vars(NextScript)

\* ------------------------------------------- the two Gradio loops, side by side
\* longest script of decision responses
MaxScript == 2

\* the scripts: the decision engine gives the k-th response of its script
\* to the k-th decision call of a request, and the last one from then on
PairScripts ==
    LET Answers ==
            {[text |-> t, calls |-> <<>>] : t \in {"hello", ""}}
            \cup {[text |-> "", calls |-> b] :
                    b \in {<<KLCall>>, <<GenCall>>, <<GenCall, KLCall>>}}
    IN UNION {[1..n -> Answers] : n \in 1..MaxScript}

\* what a caller can tell of a finished request: the answer it got, the
\* decision calls and batches it took, and the tools executed for the last
\* batch
RunSummary ==
    [answer |-> answer,
     decideCalls |-> decideCalls,
     rounds |-> rounds,
     composerCalls |-> composerCalls,
     termResponse |-> termResponse,
     tools |-> [k \in 1..Len(executed) |-> function_calls_list[executed[k]].name]]

\* process_query_with_chat(user_query, chat=None) is called
RunWithChat ==
    /\ process.pc = "first"
    /\ Accept(WithChat, FALSE, "explain the sun")
    /\ process' = [process EXCEPT !.pc = "second"]
    /\ UNCHANGED sessions

\* it has returned; process_query_for_gradio is called with the same query
RunForGradio ==
    /\ process.pc = "second"
    /\ pc = "done"
    /\ Accept(ForGradio, FALSE, user_query)
    /\ process' = [process EXCEPT !.pc = "compared", !.first = RunSummary]
    /\ UNCHANGED sessions

\* the scripted decision engine: it never fails
DecidePair ==
    /\ LET script == process.script
           k == IF decideCalls < Len(script) THEN decideCalls + 1 ELSE Len(script)
       IN DecideFrom({script[k]})
    /\ exc' = ""

\* one agent on well-formed stores and a script for both calls
InitPair ==
    /\ InitLoop
    /\ memory_data = GoodMemory
    /\ metadata = GoodMetadata
    /\ keep_turns = FALSE
    /\ generator = GeneratorIdle
    /\ \E script \in PairScripts :
         process = [pc |-> "first", script |-> script, first |-> NoneVal]
    /\ sessions = NoSessions

NextPair ==
    \/ RunWithChat
    \/ RunForGradio
    \/ DecidePair
    \/ LoopTest
    \/ Examine
    \/ ExecCall

SpecPair == InitPair /\ [][NextPair]_vars /\ WF_vars(NextPair)

\* --------------------------------------------------------- the full chain
\* a decision engine that issues the chain, one call per round: a lookup of
\* astronomy, then the selection of one title, then a terminal call
DecideChain ==
    /\ LET ChainCalls(round) ==
               CASE round = 0 -> {KLCall}
                 [] round = 1 -> {SelCall, SelCall2}
                 [] round = 2 -> {GenCall, GenCallKnowledge, GenCallFiles}
                 [] OTHER -> {}
       IN DecideFrom({[text |-> "", calls |-> <<c>>] : c \in ChainCalls(rounds)})
    /\ exc' = ""

NextChain ==
    \/ StartScript
    \/ DecideChain
    \/ LoopTest
    \/ Examine
    \/ ExecCall

SpecChain == InitScript /\ [][NextChain]_vars /\ WF_vars(NextChain)

\* ------------------------------------------------------- lookups in the loop
\* longest list of subjects of a lookup
MaxSubjects == 1

\* longest batch of lookups
LookupBatch == 3

\* the responses of the decision engine: a text, or a batch of lookups of
\* any subjects with selections in between
LookupResponses ==
    LET SubjectLists ==
            UNION {[1..n -> {"astronomy", "calculus"}] : n \in 0..MaxSubjects}
        LookupCalls ==
            {[name |-> KnowledgeTool, args |-> [subjects |-> l]] : l \in SubjectLists}
            \cup {SelCall}
        LookupBatches == UNION {[1..n -> LookupCalls] : n \in 1..LookupBatch}
    IN {[text |-> "hello", calls |-> <<>>]}
       \cup {[text |-> "", calls |-> b] : b \in LookupBatches}

\* a decision engine that asks for lookups of any subjects, with selections
\* in between, in one batch, and answers that batch with a text
DecideLookup ==
    /\ DecideFrom(IF rounds > 0
                  THEN {[text |-> "hello", calls |-> <<>>]}
                  ELSE LookupResponses)
    /\ exc' = ""

\* one request against any of the knowledge stores; <<>> is what
\* _load_memory returns when memory.json is missing or unparsable
InitLookup ==
    /\ memory_data \in {GoodMemory, MalformedMemory, <<>>}
    /\ metadata = GoodMetadata
    /\ InitLoop
    /\ keep_turns = FALSE
    /\ generator = GeneratorIdle
    /\ NoFrontEnd

NextLookup ==
    \/ StartScript
    \/ DecideLookup
    \/ LoopTest
    \/ Examine
    \/ ExecCall

SpecLookup == InitLookup /\ [][NextLookup]_vars /\ WF_vars(NextLookup)

\* ---------------------------------------------------- selections in the loop
\* longest list of titles of a selection
MaxTitles == 2

\* longest batch of selections
SelectBatch == 1

\* a store whose second entry has no content_summary and no topics
TwoFileMetadata ==
    [files |-> <<SunFile,
                 [title |-> "Moon.pdf", file_path |-> "files/Moon.pdf",
                  file_uri |-> "uri/moon"]>>]

\* what _load_metadata returns when metadata.json is missing or unparsable
EmptyMetadata == [files |-> <<>>]

\* a store with two entries whose titles are equal up to case
TwinMetadata ==
    [files |-> <<[title |-> "SUN.PDF", file_path |-> "files/SUN-2.pdf",
                  file_uri |-> "uri/sun-2"],
                 SunFile>>]

\* the responses of the decision engine: a text, or a batch of selections.
\* The titles asked for: one in another case than stored, one of the larger
\* store only, one of no store
SelectResponses ==
    LET TitleLists ==
            UNION {[1..n -> {"SUN.PDF", "Moon.pdf", "Mars.pdf"}] : n \in 0..MaxTitles}
        SelectCalls ==
            {[name |-> SelectTool, args |-> [file_titles |-> l]] : l \in TitleLists}
        SelectBatches == UNION {[1..n -> SelectCalls] : n \in 1..SelectBatch}
    IN {[text |-> "hello", calls |-> <<>>]}
       \cup {[text |-> "", calls |-> b] : b \in SelectBatches}

\* a decision engine that asks for selections of any titles in one batch and
\* answers that batch with a text
DecideSelect ==
    /\ DecideFrom(IF rounds > 0
                  THEN {[text |-> "hello", calls |-> <<>>]}
                  ELSE SelectResponses)
    /\ exc' = ""

\* one request against any of the document stores
InitSelect ==
    /\ memory_data = GoodMemory
    /\ metadata \in {GoodMetadata, TwoFileMetadata, MalformedMetadata, EmptyMetadata,
                     TwinMetadata}
    /\ InitLoop
    /\ keep_turns = FALSE
    /\ generator = GeneratorIdle
    /\ NoFrontEnd

NextSelect ==
    \/ StartScript
    \/ DecideSelect
    \/ LoopTest
    \/ Examine
    \/ ExecCall

SpecSelect == InitSelect /\ [][NextSelect]_vars /\ WF_vars(NextSelect)

\* ------------------------------------------- calls with unexpected arguments
\* longest batch of such calls
ArgsBatch == 2

\* calls without the argument their declaration requires
KLBare == [name |-> KnowledgeTool, args |-> <<>>]

SelBare == [name |-> SelectTool, args |-> <<>>]

GenBare == [name |-> TerminalTool, args |-> <<>>]

\* calls with an argument their declaration does not have
KLExtra ==
    [name |-> KnowledgeTool, args |-> [subjects |-> <<"astronomy">>, verbose |-> TRUE]]

SelExtra ==
    [name |-> SelectTool, args |-> [file_titles |-> <<"Sun.pdf">>, limit |-> 5]]

GenExtra ==
    [name |-> TerminalTool,
     args |-> [user_query |-> "explain the corona", use_knowledge_level |-> TRUE,
               use_selected_files |-> TRUE, tone |-> "short"]]

\* the responses of the decision engine: a text, or a batch of such calls
ArgsResponses ==
    LET ArgsCalls == {KLBare, SelBare, GenBare, KLExtra, SelExtra, GenExtra}
        ArgsBatches == UNION {[1..n -> ArgsCalls] : n \in 1..ArgsBatch}
    IN {[text |-> "hello", calls |-> <<>>]}
       \cup {[text |-> "", calls |-> b] : b \in ArgsBatches}

\* a decision engine whose calls do not fit the declarations, in one batch
DecideArgs ==
    /\ DecideFrom(IF rounds > 0
                  THEN {[text |-> "hello", calls |-> <<>>]}
                  ELSE ArgsResponses)
    /\ exc' = ""

NextArgs ==
    \/ StartScript
    \/ DecideArgs
    \/ LoopTest
    \/ Examine
    \/ ExecCall

\* one request against well-formed stores
InitArgs ==
    /\ InitLoop
    /\ memory_data = GoodMemory
    /\ metadata = GoodMetadata
    /\ keep_turns = FALSE
    /\ generator = GeneratorIdle
    /\ NoFrontEnd

SpecArgs == InitArgs /\ [][NextArgs]_vars /\ WF_vars(NextArgs)

\* ------------------------------ ResponseGeneratorTool.generate_response_stream
\* longest list of selected files handed to the composer
MaxFiles == 3

\* most chunks the generation stream yields
MaxChunks == 2

\* entries of selected_files: a file on disk, an entry whose file_path is
\* empty, and a file without a summary
SunEntry == SelectedEntry(SunFile)

MoonEntry ==
    [title |-> "Moon.pdf", file_path |-> "", file_uri |-> "",
     content_summary |-> "phases of the moon", topics |-> <<>>]

MarsEntry ==
    [title |-> "Mars.pdf", file_path |-> "files/Mars.pdf", file_uri |-> "uri/mars",
     content_summary |-> "", topics |-> <<"planets">>]

ComposerFiles == {SunEntry, MoonEntry, MarsEntry}

\* the list in selected_files, empty for None
FilesOf(selected_files) ==
    IF selected_files = NoneVal THEN <<>> ELSE selected_files.files

\* a prompt is the sequence of the blocks of text it is concatenated from
format_knowledge_level_context(knowledge_level_info) ==
    [block |-> "knowledge",
     subjects_info |-> Get(knowledge_level_info, "subjects_info", <<>>)]

format_single_file_context(file_info) ==
    [block |-> "file",
     title |-> Get(file_info, "title", "unknown file"),
     topics |-> Get(file_info, "topics", <<>>),
     summary |-> Get(file_info, "content_summary", "")]

\* f"用户问题: {user_query}\n\n"
QueryBlock(query) == [block |-> "query", text |-> query]

\* the prompt: the context parts and the separator "\n" + "-"*60 + "\n\n"
\* if there are any, the query, and "请提供详细、准确、易懂的回答。"
build_prompt(query, context_parts) ==
    LET Separator == [block |-> "separator"]
        ClosingBlock == [block |-> "closing"]
    IN (IF context_parts # <<>> THEN context_parts \o <<Separator>> ELSE <<>>)
       \o <<QueryBlock(query), ClosingBlock>>

\* a fallback that leaves the file out of the prompt
fallback_skip(file_info, prompt) == prompt

\* prompt = context + "\n" + prompt: the summary of a file that is not
\* attached goes in front of the prompt built so far
fallback(file_info, prompt) == <<format_single_file_context(file_info)>> \o prompt

\* types.Part.from_uri(file_uri=uploaded_file.uri, ...)
attachment(file_info) == [part |-> "file", file |-> file_info.file_path]

\* types.Part(text=prompt)
text_part(prompt) == [part |-> "text", text |-> prompt]

\* file_path and os.path.exists(file_path)
path_usable(file_info, exists) == Get(file_info, "file_path", "") # "" /\ exists

\* a test that takes the attachment path whenever files were selected
uses_attachments_any(content_parts) == Len(content_parts) > 0

\* len(content_parts) > 1: at least one file next to the text
uses_attachments(content_parts) == Len(content_parts) > 1

\* except Exception as e: full_response = f"抱歉，生成响应时出现错误: {e}"
on_stream_error(full_response) == GenerationErrorMsg

\* create_chat_session: self.chat is a new chat, without turns, and
\* conversation_history is emptied
create_chat_session(g) ==
    [g EXCEPT !.chat = TRUE, !.turns = <<>>, !.conversation_history = <<>>]

\* a chat path that starts a new chat for every generation
ensure_chat_anew(g) == create_chat_session(g)

\* if self.chat is None: self.create_chat_session()
ensure_chat(g) == IF g.chat THEN g ELSE create_chat_session(g)

\* the tail of generate_response_stream: the prompt and the response are
\* appended to conversation_history
save_history(history, prompt, full_response) ==
    history \o <<[role |-> "user", content |-> prompt],
                 [role |-> "assistant", content |-> full_response]>>

\* one pass of "for file_info in selected_files"
attach_step(g, exists, uploaded) ==
    LET file_info == FilesOf(g.selected_files)[g.k]
    IN IF path_usable(file_info, exists) /\ uploaded
       THEN [g EXCEPT !.content_parts = Append(@, attachment(file_info)),
                      !.attached = Append(@, TRUE),
                      !.k = @ + 1]
       ELSE [g EXCEPT !.prompt = fallback(file_info, @),
                      !.attached = Append(@, FALSE),
                      !.k = @ + 1]

\* generate_response_stream is called: the context and the prompt are built
GenerateStart(query, knowledge, selection) ==
    /\ generator.pc = "idle"
    /\ generator' =
         [pc |-> IF Len(FilesOf(selection)) > 0 THEN "files" ELSE "chat",
          chat |-> generator.chat,
          turns |-> generator.turns,
          conversation_history |-> generator.conversation_history,
          calls |-> generator.calls + 1,
          user_query |-> query,
          knowledge_level_info |-> knowledge,
          selected_files |-> selection,
          prompt |-> build_prompt(query,
                        IF knowledge # NoneVal
                        THEN <<format_knowledge_level_context(knowledge)>>
                        ELSE <<>>),
          content_parts |-> <<>>,
          k |-> 1,
          attached |-> <<>>,       \* per file: was it attached
          via |-> "",              \* the generation call made
          sent |-> NoneVal,        \* what the generation call was given
          full_response |-> "",
          streamed |-> "",         \* the chunks consumed so far
          chunks |-> 0,
          raised |-> FALSE]
    /\ UNCHANGED <<loop, front>>

\* the file is uploaded and attached, or its summary goes into the prompt
\* (the path is not usable, or the upload raises)
AttachFile ==
    /\ generator.pc = "files"
    /\ generator.k <= Len(FilesOf(generator.selected_files))
    /\ \E exists \in BOOLEAN, uploaded \in BOOLEAN :
         generator' = attach_step(generator, exists, uploaded)
    /\ UNCHANGED <<loop, front>>

\* after the for loop: the prompt becomes the last part; with an attachment
\* among the parts they go to generate_content_stream
SendFiles ==
    /\ generator.pc = "files"
    /\ generator.k > Len(FilesOf(generator.selected_files))
    /\ LET parts == Append(generator.content_parts, text_part(generator.prompt))
       IN generator' =
            IF uses_attachments(parts)
            THEN [generator EXCEPT !.content_parts = parts,
                                   !.via = "generate_content_stream",
                                   !.sent = [kind |-> "parts", parts |-> parts],
                                   !.pc = "stream"]
            ELSE [generator EXCEPT !.content_parts = parts, !.pc = "chat"]
    /\ UNCHANGED <<loop, front>>

\* the chat path: the chat session is created if there is none and the
\* prompt is sent with chat.send_message_stream
SendChat ==
    /\ generator.pc = "chat"
    /\ LET g == ensure_chat(generator)
       IN generator' = [g EXCEPT !.turns = Append(@, generator.prompt),
                                 !.via = "send_message_stream",
                                 !.sent = [kind |-> "prompt",
                                           prompt |-> generator.prompt],
                                 !.pc = "stream"]
    /\ UNCHANGED <<loop, front>>

\* the stream yields a chunk; "" is the chunk.text of a chunk without text
StreamChunk ==
    /\ generator.pc = "stream"
    /\ generator.chunks < MaxChunks
    /\ \E text \in {"the sun has a core", " and a corona", ""} :
         generator' = [generator EXCEPT
                         !.full_response = IF text # "" THEN @ \o text ELSE @,
                         !.streamed = @ \o text,
                         !.chunks = @ + 1]
    /\ UNCHANGED <<loop, front>>

\* the generation call or its stream raises
StreamRaise ==
    /\ generator.pc = "stream"
    /\ generator' = [generator EXCEPT
                        !.full_response = on_stream_error(@),
                        !.raised = TRUE,
                        !.conversation_history =
                            save_history(@, generator.prompt,
                                         on_stream_error(generator.full_response)),
                        !.pc = "returned"]
    /\ UNCHANGED <<loop, front>>

\* the stream is exhausted and full_response is returned
StreamEnd ==
    /\ generator.pc = "stream"
    /\ generator' = [generator EXCEPT
                        !.conversation_history =
                            save_history(@, generator.prompt, generator.full_response),
                        !.pc = "returned"]
    /\ UNCHANGED <<loop, front>>

InitComposer ==
    /\ InitLoop
    /\ memory_data = GoodMemory
    /\ metadata = GoodMetadata
    /\ keep_turns = FALSE
    /\ generator = GeneratorIdle
    /\ NoFrontEnd

\* the calls of generate_response_stream: knowledge_level_info is None or
\* the result of a lookup, selected_files is None or a list of entries
NextComposer ==
    \/ LET FileLists == UNION {[1..n -> ComposerFiles] : n \in 0..MaxFiles}
           SelectedFilesArgs ==
               {NoneVal} \cup {[kind |-> "files", files |-> l] : l \in FileLists}
           KnowledgeArgs == {NoneVal, get_knowledge_level(GoodMemory, <<"astronomy">>)}
       IN \E query \in {"explain the sun"}, knowledge \in KnowledgeArgs,
             selection \in SelectedFilesArgs :
               GenerateStart(query, knowledge, selection)
    \/ AttachFile
    \/ SendFiles
    \/ SendChat
    \/ StreamChunk
    \/ StreamRaise
    \/ StreamEnd

SpecComposer == InitComposer /\ [][NextComposer]_vars /\ WF_vars(NextComposer)

\* ------------------------------------------- one composer, call after call
\* calls of generate_response_stream on one ResponseGeneratorTool
MaxCalls == 2

\* generate_response_stream has returned: the tool is ready for the next
\* call, with its chat and its conversation_history
GenerateReturn ==
    /\ generator.pc = "returned"
    /\ generator.calls < MaxCalls
    /\ generator' = [pc |-> "idle",
                     chat |-> generator.chat,
                     turns |-> generator.turns,
                     conversation_history |-> generator.conversation_history,
                     calls |-> generator.calls]
    /\ UNCHANGED <<loop, front>>

\* calls without files, and calls with one file that is attached or not
NextHistory ==
    \/ \E selection \in {NoneVal, [kind |-> "files", files |-> <<SunEntry>>]} :
         GenerateStart("explain the sun", NoneVal, selection)
    \/ AttachFile
    \/ SendFiles
    \/ SendChat
    \/ StreamChunk
    \/ StreamRaise
    \/ StreamEnd
    \/ GenerateReturn

SpecHistory == InitComposer /\ [][NextHistory]_vars /\ WF_vars(NextHistory)

\* ----------------------------------------------------------------- start-up
\* metadata.json on disk
MissingFile == [state |-> "missing"]

UnparsableFile == [state |-> "unparsable"]

JsonFile(value) == [state |-> "json", value |-> value]

\* the files the program may find: none, one that does not parse, and
\* stores without entries, with entries, and with an entry without a title
FileStates ==
    LET UntitledMetadata ==
            [files |-> <<[file_path |-> "files/x.pdf", file_uri |-> "uri/x"]>>]
    IN {MissingFile, UnparsableFile}
       \cup {JsonFile(v) : v \in {EmptyMetadata, GoodMetadata, TwoFileMetadata,
                                  UntitledMetadata}}

\* load_metadata: a missing or unparsable file gives {"files": []}
load_metadata(file) ==
    IF file.state = "json" THEN file.value ELSE [files |-> <<>>]

\* the declaration built from given entries; "no summary" stands for the
\* default of file_info.get("content_summary", ...)
Declaration(files) ==
    [kind |-> "declaration",
     name |-> SelectTool,
     described |-> [k \in 1..Len(files) |->
                        [title |-> files[k].title,
                         summary |-> Get(files[k], "content_summary", "no summary")]],
     count |-> Len(files),
     enum |-> [k \in 1..Len(files) |-> files[k].title],
     required |-> <<"file_titles">>]

\* create_select_files_function that refuses a store without files
create_select_files_function_rejecting(file) ==
    LET files == Get(load_metadata(file), "files", <<>>)
    IN IF files = <<>> \/ \E k \in 1..Len(files) : "title" \notin DOMAIN files[k]
       THEN Raise("ValueError")
       ELSE Declaration(files)

\* create_select_files_function that lists the entries that have a summary
create_select_files_function_summarised(file) ==
    LET files == Get(load_metadata(file), "files", <<>>)
    IN IF \E k \in 1..Len(files) : "title" \notin DOMAIN files[k]
       THEN Raise("KeyError")
       ELSE Declaration(SelectSeq(files, LAMBDA f : "content_summary" \in DOMAIN f))

\* create_select_files_function: file_info["title"] raises KeyError on an
\* entry without a title
create_select_files_function(file) ==
    LET files == Get(load_metadata(file), "files", <<>>)
    IN IF \E k \in 1..Len(files) : "title" \notin DOMAIN files[k]
       THEN Raise("KeyError")
       ELSE Declaration(files)

FrontEnds == {"cli", "gradio"}

\* an environment variable: not set, set to the empty string, set to a key
Unset == [set |-> FALSE, value |-> ""]

SetKey(k) == [set |-> TRUE, value |-> k]

\* the environments of the process: each key unset, empty, or set
Environments ==
    LET EnvValues == {Unset, SetKey(""), SetKey("key-1")}
    IN [GOOGLE_API_KEY : EnvValues, GEMINI_API_KEY : EnvValues]

\* the truth value of os.getenv(name): None and "" are false
Truthy(v) == v.set /\ v.value # ""

\* os.getenv("GOOGLE_API_KEY") or os.getenv("GEMINI_API_KEY")
api_key(env) ==
    IF Truthy(env.GOOGLE_API_KEY) THEN env.GOOGLE_API_KEY ELSE env.GEMINI_API_KEY

\* the interpreter starts main.py (with or without a query on the command
\* line) or app.py
ProcessStart(file, env, fe, argv) ==
    [pc |-> "import",
     front_end |-> fe,
     argv_query |-> argv,        \* len(sys.argv) >= 2
     metadata_file |-> file,
     env |-> env,
     descriptor |-> NoneVal,     \* select_relevant_files_function
     status |-> -1,              \* the exit status, -1 while running
     exc |-> "",
     user_input |-> "",          \* the line or message last read
     current |-> "",             \* the session of the request, "" if not followed
     queries |-> 0]              \* requests taken so far

Exit(p, st, e) == [p EXCEPT !.pc = "exited", !.status = st, !.exc = e]

\* the module is loaded: select_relevant_files_function is built.  An
\* exception at module level ends the interpreter with status 1.
ImportModule ==
    /\ process.pc = "import"
    /\ LET f == create_select_files_function(process.metadata_file)
       IN process' = IF IsRaise(f)
                     THEN Exit(process, 1, f.exc)
                     ELSE [process EXCEPT !.descriptor = f, !.pc = "main"]
    /\ UNCHANGED <<loop, generator, sessions>>

\* a start-up that goes on without a key
initialize_client_lenient(p) == [p EXCEPT !.pc = "agent"]

\* initialize_client (main.py) and the head of GradioDirectorAgent.__init__
\* (app.py, its ValueError caught in create_gradio_interface): without an
\* API key the process exits with status 1
initialize_client(p) ==
    IF Truthy(api_key(p.env)) THEN [p EXCEPT !.pc = "agent"] ELSE Exit(p, 1, "")

InitializeClient ==
    /\ process.pc = "main"
    /\ process' = initialize_client(process)
    /\ UNCHANGED <<loop, generator, sessions>>

\* SelectFileTool._load_metadata
tool_metadata(file) ==
    IF file.state = "json" THEN file.value ELSE [files |-> <<>>]

\* the agent is constructed: its tools read their stores
CreateAgent ==
    /\ process.pc = "agent"
    /\ metadata' = tool_metadata(process.metadata_file)
    /\ process' = [process EXCEPT !.pc = "ready"]
    /\ UNCHANGED <<memory_data, request, pc, locals, result, observed, keep_turns,
                   generator, sessions>>

\* a decision chat: client.chats.create gives one without turns
NoChat == [created |-> FALSE, turns |-> <<>>]

FreshChat == [created |-> TRUE, turns |-> <<>>]

\* the browser sessions of the Gradio interface
Browsers == {"a", "b"}

\* main() goes on after the agent is built: the single-shot mode, or the
\* interactive mode with its chat; create_gradio_interface builds the page.
\* The front end holds per session the decision chat (the local chat of
\* main(), the gr.State of a browser session) and the pairs shown by the
\* gr.Chatbot
OpenFrontEnd ==
    /\ process.pc = "ready"
    /\ process' = [process EXCEPT
                     !.pc = IF process.front_end = "cli" /\ process.argv_query
                            THEN "single" ELSE "prompt"]
    /\ sessions' =
         IF process.front_end = "gradio"
         THEN [s \in Browsers |-> [chat |-> NoChat, history |-> <<>>]]
         ELSE IF process.argv_query THEN NoSessions
         ELSE [s \in {"cli"} |-> [chat |-> FreshChat, history |-> <<>>]]
    /\ UNCHANGED <<loop, generator>>

\* somebody rewrites metadata.json while the program runs
RewriteStore ==
    /\ process.pc \in {"import", "main", "agent", "ready", "prompt", "single"}
    /\ \E f \in FileStates \ {process.metadata_file} :
         process' = [process EXCEPT !.metadata_file = f]
    /\ UNCHANGED <<loop, generator, sessions>>

\* a request comes in through the front end: process_query without a chat
\* in single-shot mode and with the chat in interactive mode,
\* process_query_with_chat with the chat of the browser session
StartServed ==
    /\ process.pc \in {"prompt", "single"}
    /\ StartRequest(IF process.front_end = "cli" THEN ProcessQuery ELSE WithChat,
                    process.pc = "prompt", "explain the sun")

\* the single-shot run is over: main() returns, or dies with the traceback
\* of the exception process_query let through
SingleShotEnds ==
    /\ process.pc = "single"
    /\ pc \in {"done", "crashed"}
    /\ process' = Exit(process, IF pc = "crashed" THEN 1 ELSE 0, exc)
    /\ UNCHANGED <<loop, generator, sessions>>

\* a decision engine that selects titles the declaration enumerates, one
\* at a time
DecideCatalog ==
    /\ DecideFrom(IF rounds > 0
                  THEN {[text |-> "hello", calls |-> <<>>]}
                  ELSE {[text |-> "hello", calls |-> <<>>]}
                       \cup {[text |-> "",
                              calls |-> <<[name |-> SelectTool,
                                           args |-> [file_titles |-> <<t>>]]>>] :
                                t \in SeqRange(process.descriptor.enum)})
    /\ exc' = ""

InitStartup ==
    /\ InitLoop
    /\ memory_data = GoodMemory
    /\ metadata = NoneVal
    /\ keep_turns = FALSE
    /\ generator = GeneratorIdle
    /\ \E file \in FileStates, env \in Environments, fe \in FrontEnds,
          argv \in BOOLEAN :
         /\ argv => fe = "cli"
         /\ process = ProcessStart(file, env, fe, argv)
    /\ sessions = NoSessions

NextStartup ==
    \/ ImportModule
    \/ InitializeClient
    \/ CreateAgent
    \/ OpenFrontEnd
    \/ RewriteStore
    \/ StartServed
    \/ SingleShotEnds
    \/ DecideCatalog
    \/ LoopTest
    \/ Examine
    \/ ExecCall

SpecStartup == InitStartup /\ [][NextStartup]_vars

\* ------------------------------------------------------------ the front ends
\* requests one run of the program takes
MaxQueries == 2

\* str.strip() on the lines of the model
Strip(line) ==
    CASE line = " Q " -> "Q"
      [] line = "   " -> ""
      [] OTHER -> line

\* str.lower() on the stripped lines of the model
LowerLine(line) ==
    CASE line = "Q" -> "q"
      [] line = "Clear" -> "clear"
      [] OTHER -> line

\* the message typed in a browser session
MessageOf(s) == IF s = "a" THEN "explain the sun" ELSE "explain the moon"

\* the names of the calls of a batch, of the tools of function responses
Names(list) == [k \in 1..Len(list) |-> list[k].name]

\* chat.send_message(message) has returned r: the chat keeps the message
\* and the content of the response
send_message(c, message, r) ==
    [c EXCEPT !.turns =
        @ \o <<message, [role |-> "model", text |-> r.text, calls |-> Names(r.calls)]>>]

\* the sessions after a decision call of the running request.  The chat is
\* given the query before the loop, and the function responses of the batch
\* in the loop
sessions_after_send(r) ==
    LET sent_message ==
            IF pc = "send"
            THEN [role |-> "user", text |-> "", responses |-> Names(function_responses)]
            ELSE [role |-> "user", text |-> user_query, responses |-> <<>>]
    IN IF chat /\ process.current \in DOMAIN sessions
       THEN [sessions EXCEPT ![process.current].chat = send_message(@, sent_message, r)]
       ELSE sessions

RECURSIVE prompt_after(_, _, _, _)
\* the prompt after the loop over the files: the summary of every file that
\* was not attached went in front of it
prompt_after(files, attached, k, prompt) ==
    IF k > Len(files) THEN prompt
    ELSE prompt_after(files, attached, k + 1,
                      IF attached[k] THEN prompt ELSE fallback(files[k], prompt))

\* the composer after generate_response_stream(args) has returned
\* full_response: with a file attached the call went to
\* generate_content_stream; otherwise the prompt went to self.chat, created
\* on first use.  Either way the exchange is appended to
\* conversation_history.
generator_after(args, full_response) ==
    LET files == FilesOf(args.selected_files)
        base == build_prompt(args.user_query,
                    IF args.knowledge_level_info # NoneVal
                    THEN <<format_knowledge_level_context(args.knowledge_level_info)>>
                    ELSE <<>>)
        after(attached) ==
            LET prompt == prompt_after(files, attached, 1, base)
                chat_path == \A k \in 1..Len(files) : ~attached[k]
                g == IF chat_path THEN ensure_chat(generator) ELSE generator
            IN [g EXCEPT !.turns = IF chat_path THEN Append(@, prompt) ELSE @,
                         !.conversation_history =
                             save_history(@, prompt, full_response),
                         !.calls = @ + 1]
    IN {after(attached) : attached \in [1..Len(files) -> BOOLEAN]}

\* the responses of the decision engine in a session: a text, a lookup, or
\* a terminal call on the query of the request (with the knowledge level,
\* without files) with or without a lookup before it
SessionResponses(q) ==
    LET GenFor ==
            [name |-> TerminalTool,
             args |-> [user_query |-> q, use_knowledge_level |-> TRUE,
                       use_selected_files |-> FALSE]]
    IN {[text |-> "hello", calls |-> <<>>]}
       \cup {[text |-> "", calls |-> b] :
               b \in {<<KLCall>>, <<KLCall, GenFor>>, <<GenFor>>}}

\* a decision engine that answers with a text, a lookup, or a terminal call
\* with or without a lookup before it, and with a text after a lookup
DecideSession ==
    /\ DecideOn(IF rounds > 0
                THEN {[text |-> "hello", calls |-> <<>>]}
                ELSE SessionResponses(user_query),
                sessions_after_send)
    /\ exc' = ""

\* a batch step with the composer followed
ExecServed == ExecWith(generator_after)

\* clear that leaves the chat in place
clear_chat_keep(c) == c

\* 'clear': chat = client.chats.create(...)
clear_chat(c) == FreshChat

\* the request of the line or message is handed to the agent
Serve(p, s, e, q) ==
    /\ p.queries < MaxQueries
    /\ process' = [p EXCEPT !.pc = "busy", !.current = s, !.queries = @ + 1]
    /\ Accept(e, TRUE, q)

\* one pass of the loop of main() up to the command or the call of
\* process_query; input() may raise EOFError or KeyboardInterrupt
ReadInput ==
    /\ process.pc = "prompt"
    /\ process.front_end = "cli"
    /\ \/ /\ process' = Exit(process, 0, "EOFError")
          /\ UNCHANGED <<loop, generator, sessions>>
       \/ \E line \in {"quit", "exit", " Q ", "help", "Clear", "history", "", "   ",
                        "explain the sun"} :
            LET user_input == Strip(line)
                p == [process EXCEPT !.user_input = user_input]
            IN IF user_input = "" \/ LowerLine(user_input) \in {"help", "history"}
               THEN /\ process' = p
                    /\ UNCHANGED <<loop, generator, sessions>>
               ELSE IF LowerLine(user_input) \in {"quit", "exit", "q"}
               THEN /\ process' = Exit(p, 0, "")
                    /\ UNCHANGED <<loop, generator, sessions>>
               ELSE IF LowerLine(user_input) = "clear"
               THEN /\ process' = p
                    /\ sessions' = [sessions EXCEPT !["cli"].chat = clear_chat(@)]
                    /\ UNCHANGED <<loop, generator>>
               ELSE /\ Serve(p, "cli", ProcessQuery, user_input)
                    /\ UNCHANGED sessions

\* get_or_create_chat
get_or_create_chat(c) == IF c.created THEN c ELSE FreshChat

\* respond up to the call of process_query_with_chat
Respond ==
    /\ process.pc = "prompt"
    /\ process.front_end = "gradio"
    /\ \E s \in Browsers : \E message \in {"", " ", MessageOf(s)} :
         LET p == [process EXCEPT !.user_input = message]
         IN IF IsBlank(message)
            THEN /\ process' = p
                 /\ UNCHANGED <<loop, generator, sessions>>
            ELSE /\ Serve(p, s, WithChat, message)
                 /\ sessions' = [sessions EXCEPT ![s].chat = get_or_create_chat(@)]

\* retry_last: the last exchange is taken off the history and its message
\* goes through respond again, with the chat of the session as it is
RetryLast ==
    /\ process.pc = "prompt"
    /\ process.front_end = "gradio"
    /\ \E s \in Browsers :
         /\ sessions[s].history # <<>>
         /\ LET history == sessions[s].history
                last_message == history[Len(history)][1]
                p == [process EXCEPT !.user_input = last_message]
            IN IF IsBlank(last_message)
               THEN /\ process' = p
                    /\ sessions' = [sessions EXCEPT
                                      ![s].history = SubSeq(history, 1, Len(history) - 1)]
                    /\ UNCHANGED <<loop, generator>>
               ELSE /\ Serve(p, s, WithChat, last_message)
                    /\ sessions' = [sessions EXCEPT
                                      ![s].history = SubSeq(history, 1, Len(history) - 1),
                                      ![s].chat = get_or_create_chat(@)]

\* clear_history
ClearHistory ==
    /\ process.pc = "prompt"
    /\ process.front_end = "gradio"
    /\ \E s \in Browsers :
         /\ sessions[s] # [chat |-> NoChat, history |-> <<>>]
         /\ sessions' = [sessions EXCEPT ![s] = [chat |-> NoChat, history |-> <<>>]]
    /\ UNCHANGED <<loop, generator, process>>

\* the agent has returned: main() prompts again; respond appends the pair
\* of message and reply to the history of the session
RequestReturns ==
    /\ process.pc = "busy"
    /\ pc = "done"
    /\ process' = [process EXCEPT !.pc = "prompt", !.current = ""]
    /\ sessions' =
         IF process.front_end = "gradio"
         THEN [sessions EXCEPT ![process.current].history =
                    Append(@, <<user_query, answer>>)]
         ELSE sessions
    /\ UNCHANGED <<loop, generator>>

\* the agent is built on well-formed stores, with a key in the environment
InitProgram ==
    /\ InitLoop
    /\ memory_data = GoodMemory
    /\ metadata = GoodMetadata
    /\ keep_turns = FALSE
    /\ generator = GeneratorIdle
    /\ \E fe \in FrontEnds :
         process =
            [ProcessStart(JsonFile(GoodMetadata),
                          [GOOGLE_API_KEY |-> SetKey("key-1"), GEMINI_API_KEY |-> Unset],
                          fe, FALSE)
                EXCEPT !.pc = "ready",
                       !.descriptor = create_select_files_function(JsonFile(GoodMetadata))]
    /\ sessions = NoSessions

NextProgram ==
    \/ OpenFrontEnd
    \/ ReadInput
    \/ Respond
    \/ RetryLast
    \/ ClearHistory
    \/ RequestReturns
    \/ DecideSession
    \/ LoopTest
    \/ Examine
    \/ ExecServed

SpecProgram == InitProgram /\ [][NextProgram]_vars /\ WF_vars(NextProgram)

\* ------------------------------------------------------------ blank queries
\* one of the two Gradio entry points is called on the agent of the program,
\* without a chat, while no request of the page is running
CallAgent ==
    /\ process.pc = "prompt"
    /\ process.queries < MaxQueries
    /\ process' = [process EXCEPT !.queries = @ + 1]
    /\ \E e \in {WithChat, ForGradio}, q \in {"", " ", "explain the sun"} :
         Accept(e, FALSE, q)
    /\ UNCHANGED sessions

\* the page and the entry points of its agent
NextBlank ==
    \/ OpenFrontEnd
    \/ Respond
    \/ RequestReturns
    \/ CallAgent
    \/ DecideSession
    \/ LoopTest
    \/ Examine
    \/ ExecServed

SpecBlank == InitProgram /\ [][NextBlank]_vars /\ WF_vars(NextBlank)

\* ------------------------------------------------------------------ claims
KnownTools == {KnowledgeTool, SelectTool, TerminalTool}

\* the batch in hand is [non-terminal A, terminal, non-terminal B]
BatchATB ==
    /\ Len(function_calls_list) = 3
    /\ function_calls_list[1].name # TerminalTool
    /\ function_calls_list[2].name = TerminalTool
    /\ function_calls_list[3].name # TerminalTool

\* C1: in every entry point, for a batch [A, terminal, B] the call B is
\* never handed to execute_function, and when the request ends on the
\* terminal call, A and the terminal call are what was executed and the
\* answer is the terminal call's response.  (Stated for requests in which
\* no exception was raised.)
C1_TerminalShortCircuit ==
    (BatchATB /\ exc = "") =>
        /\ \A k \in 1..Len(executed) : executed[k] # 3
        /\ (pc = "done" /\ outcome = "terminal") =>
                executed = <<1, 2>> /\ answer = termResponse

\* C2: against the stubbed decision engine every entry point terminates,
\* it does so on the iteration limit after exactly max_iterations
\* tool-execution rounds, and the number of rounds never exceeds it.
C2_BoundedTermination ==
    /\ <>(pc = "done")
    /\ [](pc = "done" => outcome = "limit" /\ rounds = max_iterations)
    /\ [](rounds <= max_iterations)

C2_Witness ==
    /\ pc = "done"
    /\ entry = ForGradio
    /\ outcome = "limit"
    /\ rounds = max_iterations

\* C3: within one request the decision engine is called at most
\* max_iterations times, and a request that ends has examined every
\* response it obtained.  (Stated for requests in which no exception was
\* raised.)
C3_DecisionCallsWithinCeiling ==
    exc = "" =>
        /\ decideCalls <= max_iterations
        /\ pc = "done" => examined = decideCalls

\* C4: a request ended by the iteration ceiling delivers the fixed
\* iteration-limit message as its final answer, in every entry point.
C4_LimitAnswerIsWarning ==
    (pc = "done" /\ outcome = "limit") => answer = LimitMsg

\* the first decision response is in hand, it has a text and no tool call
FirstResponseIsText ==
    /\ decideCalls = 1
    /\ response.calls = <<>>
    /\ response.text # ""

\* C5: when the first decision response carries a non-empty text and no
\* tool call, the request is on its way to return or has returned exactly
\* that text: no tool round was started, no tool executed, the composer was
\* not invoked and no decision call is pending.
C5_PlainTextIsFinal ==
    FirstResponseIsText =>
        /\ pc \in {"loop", "examine", "done"}
        /\ pc = "loop" => loop_continues(iteration)
        /\ rounds = 0
        /\ executed = <<>>
        /\ composerCalls = 0
        /\ pc = "done" => outcome = "text" /\ answer = response.text

C5_Witness ==
    /\ FirstResponseIsText
    /\ pc = "done"
    /\ entry = WithChat
    /\ answer = "hello"

\* a Gradio entry point has returned on a response with neither text nor
\* tool calls
EmptyResponseReturned ==
    /\ pc = "done"
    /\ outcome = "text"
    /\ response.text = ""
    /\ entry \in {WithChat, ForGradio}

AtUnknownCall ==
    /\ pc = "exec"
    /\ i <= Len(function_calls_list)
    /\ function_calls_list[i].name \notin KnownTools

C8_HandlerErrorsAreData ==
    exc \in {"", DecisionError}

\* the request runs where the claim places it: a Gradio entry point, or
\* process_query under the interactive loop of main()
Supervised == entry \in {WithChat, ForGradio} \/ (entry = ProcessQuery /\ chat)

\* C9: a failed decision-engine call ends the request with a diagnostic
\* message and without a crash, and the next thing that happens is the
\* start of a fresh request.
C9_DecisionFailureIsReported ==
    /\ []((Supervised /\ exc = DecisionError) =>
            /\ pc = "done"
            /\ outcome = "error"
            /\ diagnostic \in {ErrorMsg(DecisionError), MainErrorMsg(DecisionError)}
            /\ ENABLED (\E e \in EntryPoints, c \in BOOLEAN, q \in Queries :
                            StartRequest(e, c, q)))
    /\ [][(Supervised /\ exc = DecisionError) =>
            /\ pc' \in {"decide0", "loop", "done"}
            /\ exc' = ""
            /\ decideCalls' = 0
            /\ knowledge_level_result' = NoneVal
            /\ selected_files_result' = NoneVal]_vars

C9_Witness ==
    /\ pc = "done"
    /\ entry = WithChat
    /\ exc = DecisionError
    /\ decideCalls = 2
    /\ diagnostic = ErrorMsg(DecisionError)

\* C10: every round has issued exactly one decision call when its response
\* is examined, and once a decision call has failed the request issues no
\* further decision call and executes no tool.
C10_NoRetry ==
    /\ [](pc \in {"examine", "exec"} => decideCalls = iteration)
    /\ [][(exc = DecisionError /\ exc' = DecisionError) =>
            /\ decideCalls' = decideCalls
            /\ rounds' = rounds
            /\ executed' = executed
            /\ composerCalls' = composerCalls]_vars

C10_Witness ==
    /\ exc = DecisionError
    /\ entry = ProcessQuery
    /\ decideCalls = 3
    /\ rounds = 2

\* the function response most recently recorded for the tool in the batch
LatestOf(tool, responses) ==
    LET ks == {k \in 1..Len(responses) : responses[k].name = tool}
    IN responses[CHOOSE k \in ks : \A j \in ks : j <= k].response

HasOf(tool, responses) == \E k \in 1..Len(responses) : responses[k].name = tool

\* C11: the loop holds at most one knowledge-level result and at most one
\* selection result; each is the result of the most recently executed call
\* of its tool: within a batch it equals the latest function response of
\* the tool, it changes only when a call of the tool executes (then to the
\* result just recorded) or a new request starts, and what the composer is
\* given is the result currently held or nothing.
C11_LastWriteWins ==
    /\ [](/\ knowledge_level_result.kind \in {"None", "knowledge"}
          /\ selected_files_result.kind \in {"None", "selection"}
          /\ HasOf(KnowledgeTool, function_responses) =>
                knowledge_level_result = LatestOf(KnowledgeTool, function_responses)
          /\ HasOf(SelectTool, function_responses) =>
                selected_files_result = LatestOf(SelectTool, function_responses))
    /\ [][/\ knowledge_level_result' # knowledge_level_result =>
                \/ pc \in {"idle", "done"} /\ knowledge_level_result' = NoneVal
                \/ /\ pc = "exec"
                   /\ function_calls_list[i].name = KnowledgeTool
                   /\ function_responses' # function_responses
                   /\ knowledge_level_result' =
                        function_responses'[Len(function_responses')].response
          /\ selected_files_result' # selected_files_result =>
                \/ pc \in {"idle", "done"} /\ selected_files_result' = NoneVal
                \/ /\ pc = "exec"
                   /\ function_calls_list[i].name = SelectTool
                   /\ function_responses' # function_responses
                   /\ selected_files_result' =
                        function_responses'[Len(function_responses')].response
          /\ composerCalls' # composerCalls =>
                /\ composerArgs'.knowledge_level_info \in
                        {NoneVal, knowledge_level_result}
                /\ composerArgs'.selected_files \in
                        {NoneVal, [kind |-> "files",
                                   files |-> Get(selected_files_result,
                                                 "selected_files", <<>>)]}]_vars

\* two lookups with different results in one batch; the second is held
C11_Witness ==
    /\ Len(function_responses) = 2
    /\ function_responses[1].name = KnowledgeTool
    /\ function_responses[2].name = KnowledgeTool
    /\ function_responses[1].response # function_responses[2].response
    /\ knowledge_level_result = function_responses[2].response

\* C12: generate_response_stream is called only while a terminal call is
\* executed, and its arguments are the results held at that moment filtered
\* by the flags of the call: the knowledge-level result if
\* use_knowledge_level is true and None otherwise, the selected files if
\* use_selected_files is true and a selection result is held and None
\* otherwise.  Results of earlier calls of the same batch count as held.
C12_ComposerGetsFilteredResults ==
    [][composerCalls' # composerCalls =>
          /\ pc = "exec"
          /\ composerCalls' = composerCalls + 1
          /\ LET function_call == function_calls_list[i]
             IN /\ function_call.name = TerminalTool
                /\ composerArgs'.knowledge_level_info =
                      IF function_call.args.use_knowledge_level
                      THEN knowledge_level_result ELSE NoneVal
                /\ composerArgs'.selected_files =
                      IF function_call.args.use_selected_files
                         /\ selected_files_result # NoneVal
                      THEN [kind |-> "files",
                            files |-> selected_files_result.selected_files]
                      ELSE NoneVal
                /\ \A k \in 1..Len(function_responses) :
                      /\ function_responses[k].name = KnowledgeTool =>
                            knowledge_level_result.kind = "knowledge"
                      /\ function_responses[k].name = SelectTool =>
                            selected_files_result.kind = "selection"]_vars

\* a batch [lookup, terminal call asking for the knowledge level only],
\* after a selection in an earlier round
C12_Witness ==
    /\ pc = "done"
    /\ outcome = "terminal"
    /\ composerCalls = 1
    /\ function_calls_list = <<KLCall, GenCallKnowledge>>
    /\ function_responses # <<>>
    /\ composerArgs.knowledge_level_info = function_responses[1].response
    /\ selected_files_result.kind = "selection"
    /\ composerArgs.selected_files = NoneVal

\* C13: when the decision engine issues the chain lookup, selection,
\* terminal call with one call per round, the request ends with three
\* function responses handed to the session (one per executed call, the
\* terminal call included), with the response of the terminal payload as
\* the final answer, and holding the lookup's and the selection's result.
C13_FullChain ==
    pc = "done" =>
        /\ outcome = "terminal"
        /\ rounds = 3
        /\ toolTurns = 3
        /\ answer = termResponse
        /\ knowledge_level_result = get_knowledge_level(memory_data, <<"astronomy">>)
        /\ selected_files_result.kind = "selection"

\* C14: a request executes at most one terminal call: the composer is
\* invoked at most once, no call of the batch behind an executed terminal
\* call is executed, and once the terminal call has executed no tool is
\* executed and nothing is handed to the session.
C14_SingleTerminalExecution ==
    /\ [](/\ composerCalls <= 1
          /\ \A j, k \in 1..Len(executed) :
                function_calls_list[executed[j]].name = TerminalTool =>
                    executed[k] <= executed[j])
    /\ [][composerCalls >= 1 =>
             /\ executed' = executed
             /\ composerCalls' = composerCalls
             /\ toolTurns' = toolTurns]_vars

\* the generation call of the running generate_response_stream was made
GenerationCalled == generator.pc \in {"stream", "returned"}

\* the attachment parts and the prompt the generation call was given
SentParts ==
    IF generator.sent.kind = "parts"
    THEN SubSeq(generator.sent.parts, 1, Len(generator.sent.parts) - 1)
    ELSE <<>>

SentPrompt ==
    IF generator.sent.kind = "parts"
    THEN generator.sent.parts[Len(generator.sent.parts)].text
    ELSE generator.sent.prompt

\* the positions of selected_files that hold f and were attached (b = TRUE)
\* or not (b = FALSE)
Occurrences(f, b) ==
    {k \in 1..Len(generator.attached) :
        FilesOf(generator.selected_files)[k] = f /\ generator.attached[k] = b}

AttachmentsOf(f) ==
    {k \in 1..Len(SentParts) : SentParts[k] = attachment(f)}

SummariesOf(f) ==
    {k \in 1..Len(SentPrompt) : SentPrompt[k] = format_single_file_context(f)}

\* C15: whatever files are selected and whichever of them fail to attach
\* (path not usable or upload raising), the generation call is made, and
\* what it is given holds every selected file exactly once: as an
\* attachment part when its upload succeeded, as its summary block in the
\* prompt otherwise.
C15_PartialFailureIsolation ==
    /\ [](GenerationCalled =>
            /\ generator.sent # NoneVal
            /\ Len(generator.attached) = Len(FilesOf(generator.selected_files))
            /\ \A f \in ComposerFiles :
                  /\ Cardinality(AttachmentsOf(f)) = Cardinality(Occurrences(f, TRUE))
                  /\ Cardinality(SummariesOf(f)) = Cardinality(Occurrences(f, FALSE)))
    /\ (generator.pc = "files") ~> GenerationCalled

\* three files of which the second fails: two attachments and one summary
C15_Witness ==
    /\ generator.pc = "returned"
    /\ ~generator.raised
    /\ FilesOf(generator.selected_files) = <<SunEntry, MarsEntry, SunEntry>>
    /\ generator.attached = <<TRUE, FALSE, TRUE>>
    /\ SentParts = <<attachment(SunEntry), attachment(SunEntry)>>
    /\ Cardinality(SummariesOf(MarsEntry)) = 1

\* files were selected and none of them was attached
NoneAttached ==
    /\ Len(generator.attached) > 0
    /\ \A k \in 1..Len(generator.attached) : ~generator.attached[k]

\* C16: when files were selected and every one of them failed to attach,
\* the generation call is the chat's send_message_stream and its prompt
\* holds the summary of every selected file; when at least one file was
\* attached the call is generate_content_stream and the chat is not used.
C16_ChatPathIffNoAttachment ==
    (GenerationCalled /\ Len(FilesOf(generator.selected_files)) > 0) =>
        IF NoneAttached
        THEN /\ generator.via = "send_message_stream"
             /\ generator.sent.kind = "prompt"
             /\ generator.chat
             /\ \A k \in 1..Len(generator.attached) :
                   SummariesOf(FilesOf(generator.selected_files)[k]) # {}
        ELSE /\ generator.via = "generate_content_stream"
             /\ generator.sent.kind = "parts"

\* two files, neither attached, answered on the chat path
C16_Witness ==
    /\ generator.pc = "returned"
    /\ FilesOf(generator.selected_files) = <<SunEntry, MoonEntry>>
    /\ generator.attached = <<FALSE, FALSE>>
    /\ generator.via = "send_message_stream"
    /\ generator.full_response = "the sun has a core"

\* what the generation call was given, in order: the attachment parts,
\* then the blocks of the prompt
SentContext == SentParts \o SentPrompt

IsResource(x) ==
    \/ "part" \in DOMAIN x /\ x.part = "file"
    \/ "block" \in DOMAIN x /\ x.block = "file"

IsBlock(x, b) == "block" \in DOMAIN x /\ x.block = b

\* the selected file a resource of the context stands for
ResourceFile(x) ==
    CHOOSE f \in ComposerFiles :
        x = attachment(f) \/ x = format_single_file_context(f)

\* C17: the generation context is, in this order, the knowledge-level
\* block (if any), one resource per selected file in selection order
\* (attachment or summary), the user query, the closing instruction: no
\* resource comes before the knowledge-level block, and the resources
\* stand in the order of selected_files.
C17_FixedContextOrder ==
    GenerationCalled =>
        LET ctx == SentContext
            res == {k \in 1..Len(ctx) : IsResource(ctx[k])}
            files == FilesOf(generator.selected_files)
        IN /\ \A j, k \in 1..Len(ctx) :
                 (IsBlock(ctx[j], "knowledge") /\ IsResource(ctx[k])) => j < k
           /\ \A k \in res :
                 ResourceFile(ctx[k]) = files[Cardinality({j \in res : j <= k})]
           /\ IsBlock(ctx[Len(ctx) - 1], "query")
           /\ IsBlock(ctx[Len(ctx)], "closing")

\* C18: when the stream raises after some chunks were consumed, what
\* generate_response_stream returns is the text of those chunks followed
\* by the error notice.
C18_PartialOutputKept ==
    (generator.pc = "returned" /\ generator.raised) =>
        generator.full_response = generator.streamed \o GenerationErrorMsg

\* the subjects the k-th call of the batch asks for
SubjectsOf(k) == Get(function_calls_list[k].args, "subjects", <<>>)

\* the k-th function response of the batch is that of a lookup
IsLookup(k) == function_responses[k].name = KnowledgeTool

\* C19: get_knowledge_level never fails, whatever the subjects and the
\* store: its payload has an entry for exactly the requested subjects, the
\* stored level and description for a subject of the store, level
\* "unknown" and the no-data description for any other.
C19_LookupIsTotal ==
    /\ exc = ""
    /\ \A k \in 1..Len(function_responses) :
          IsLookup(k) =>
            LET info == function_responses[k].response.subjects_info
                stored == Get(memory_data, "knowledge_levels", <<>>)
            IN /\ DOMAIN info = SeqRange(SubjectsOf(k))
               /\ \A s \in DOMAIN info :
                     IF s \in DOMAIN stored
                     THEN /\ info[s].level = stored[s].level
                          /\ info[s].detailed_description =
                                stored[s].detailed_description
                     ELSE /\ info[s].level = "unknown"
                          /\ info[s].detailed_description = NotFoundDescription(s)

TitlesOf(k) == Get(function_calls_list[k].args, "file_titles", <<>>)

\* the store has an entry under the title, whatever the case of its letters
Stored(t) == TitleMapHas(Get(metadata, "files", <<>>), Lower(t))

\* the requested titles the store has (or has not), in request order
Requested(titles, present) ==
    SelectSeq(titles, LAMBDA t : Stored(t) = present)

\* C21: select_files_by_titles partitions the requested titles: those the
\* store has give one entry of selected_files each, the others one entry of
\* not_found each, both in request order, total_selected is the number of
\* entries selected, and a selection whose titles are all absent from the
\* store raises nothing.
C21_SelectionPartitions ==
    /\ [](\A k \in 1..Len(function_responses) :
            function_responses[k].name = SelectTool =>
                LET r == function_responses[k].response
                    found == Requested(TitlesOf(k), TRUE)
                IN /\ Len(r.selected_files) = Len(found)
                   /\ \A j \in 1..Len(found) :
                         Lower(r.selected_files[j].title) = Lower(found[j])
                   /\ r.not_found = Requested(TitlesOf(k), FALSE)
                   /\ Len(r.selected_files) + Len(r.not_found) = Len(TitlesOf(k))
                   /\ r.total_selected = Len(r.selected_files))
    /\ [][(/\ pc = "exec"
           /\ function_calls_list[i].name = SelectTool
           /\ \A j \in 1..Len(TitlesOf(i)) : ~Stored(TitlesOf(i)[j])) =>
                exc' = ""]_vars

\* a selection of a stored and of an absent title has been answered
C21_Witness ==
    /\ Len(function_responses) = 1
    /\ metadata = TwoFileMetadata
    /\ TitlesOf(1) = <<"Mars.pdf", "Moon.pdf">>
    /\ function_responses[1].response.not_found = <<"Mars.pdf">>
    /\ function_responses[1].response.total_selected = 1

\* the argument the declaration of a tool requires
RequiredArg(name) ==
    CASE name = KnowledgeTool -> "subjects"
      [] name = SelectTool -> "file_titles"
      [] name = TerminalTool -> "user_query"
      [] OTHER -> ""

\* the k-th call of the batch lacks its required argument
LacksRequired(k) ==
    /\ function_calls_list[k].name \in KnownTools
    /\ RequiredArg(function_calls_list[k].name) \notin DOMAIN function_calls_list[k].args

CatalogBuilt == process.pc = "import" /\ process'.pc # "import"

\* metadata.json is missing, unparsable or lists no file
NothingToEnumerate ==
    \/ process.metadata_file.state \in {"missing", "unparsable"}
    \/ /\ process.metadata_file.state = "json"
       /\ Get(process.metadata_file.value, "files", <<>>) = <<>>

SnapshotTitles(file) ==
    IF file.state = "json"
    THEN [k \in 1..Len(Get(file.value, "files", <<>>)) |-> file.value.files[k].title]
    ELSE <<>>

\* C24: the declaration enumerates the titles of the entries metadata.json
\* has when the declaration is built, each once and in file order, and no
\* later step changes the declaration, whatever happens to the file.
C24_DescriptorIsSnapshot ==
    /\ [][(CatalogBuilt /\ process'.pc = "main") =>
            /\ process'.descriptor.enum = SnapshotTitles(process.metadata_file)
            /\ process'.descriptor.count = Len(process'.descriptor.enum)]_vars
    /\ [][process.descriptor # NoneVal =>
            process'.descriptor = process.descriptor]_vars

\* the declaration still enumerates two titles after the file has gone
C24_Witness ==
    /\ process.pc = "prompt"
    /\ process.descriptor.enum = <<"Sun.pdf", "Moon.pdf">>
    /\ process.metadata_file = MissingFile
    /\ metadata = TwoFileMetadata

\* C25: in a batch without a terminal call the calls are executed one
\* after another in arrival order, the function responses collected are one
\* per executed call in that order, and a further decision call is issued
\* only when every call of the batch has been executed and answered.
\* (Stated for requests in which no exception was raised.)
C25_BatchInArrivalOrder ==
    /\ []((exc = "" /\ ~AnyTerminal(function_calls_list)) =>
            /\ executed = [k \in 1..Len(executed) |-> k]
            /\ Len(function_responses) = Len(executed)
            /\ \A k \in 1..Len(function_responses) :
                  LET call == function_calls_list[k]
                      r == function_responses[k]
                  IN /\ r.name = call.name
                     /\ r.response.kind =
                            CASE call.name = KnowledgeTool -> "knowledge"
                              [] call.name = SelectTool -> "selection"
                              [] OTHER -> "None")
    /\ [][(decideCalls' = decideCalls + 1 /\ function_calls_list # <<>>) =>
            /\ ~AnyTerminal(function_calls_list)
            /\ executed = [k \in 1..Len(function_calls_list) |-> k]
            /\ Len(function_responses) = Len(function_calls_list)]_vars

\* a batch of three different calls has been executed and answered, and
\* the answers wait for the next decision call
C25_Witness ==
    /\ pc = "send"
    /\ exc = ""
    /\ function_calls_list = <<SelCall, BogusCall, KLCall>>
    /\ executed = <<1, 2, 3>>
    /\ function_responses[1].name = SelectTool
    /\ function_responses[2].name = BogusTool
    /\ function_responses[3].name = KnowledgeTool

\* no request is running
BetweenRequests == pc \in {"idle", "done", "crashed"}

\* C26: iteration is 0 when a request starts, every round of the loop adds
\* exactly 1 to it (it counts the decision responses the loop takes up), no
\* step of a request lowers it, and it never exceeds max_iterations.
C26_IterationCounter ==
    /\ [](iteration \in 0..max_iterations)
    /\ [][IF BetweenRequests
          THEN iteration' = 0
          ELSE iteration' \in {iteration, iteration + 1}]_vars
    /\ [][examined' = examined + 1 => iteration = examined + 1]_vars
    /\ [](exc = "" => iteration - examined \in {0, 1})

\* a request has gone through all the rounds the loop allows
C26_Witness ==
    /\ pc = "done"
    /\ outcome = "limit"
    /\ iteration = max_iterations
    /\ examined = max_iterations

\* neither GOOGLE_API_KEY nor GEMINI_API_KEY is set
NoCredentials ==
    /\ ~process.env.GOOGLE_API_KEY.set
    /\ ~process.env.GEMINI_API_KEY.set

\* C27: without GOOGLE_API_KEY and GEMINI_API_KEY the program, started as
\* main.py or as app.py, gets no further than the credentials check: it
\* leaves that check by exiting with a non-zero status, and up to then no
\* request has been started, no decision call issued and no chat session
\* created.
C27_NoCredentialsNoService ==
    /\ [](NoCredentials =>
            /\ process.pc \in {"import", "main", "exited"}
            /\ process.pc = "exited" => process.status > 0
            /\ pc = "idle"
            /\ decideCalls = 0
            /\ sessions = NoSessions)
    /\ [][(NoCredentials /\ process.pc = "main" /\ process'.pc # "main") =>
            process'.pc = "exited" /\ process'.status = 1]_vars

\* app.py has left the credentials check without a key
C27_Witness ==
    /\ NoCredentials
    /\ process.front_end = "gradio"
    /\ process.descriptor # NoneVal
    /\ process.pc = "exited"
    /\ process.status = 1

\* main() waits for a line
AtPrompt == process.pc = "prompt" /\ process.front_end = "cli"

\* input() has returned a line
LineRead == AtPrompt /\ process'.exc = "" /\ process' # process

\* the line read, stripped and in lower case
Typed == LowerLine(process'.user_input)

\* the turns of the decision chat of main()
CliTurns == sessions["cli"].chat.turns

\* C28: in the interactive loop quit, exit and q (in any case, with blanks
\* around) end the program; help, clear, history and a blank line start no
\* request and issue no decision call, and only clear touches the chat: it
\* puts a chat without turns in its place.  The request of the first query
\* after a clear starts on that empty chat, and its first decision call
\* adds the query and the reply to it, so that the chat then holds nothing
\* from before the clear.
C28_InteractiveCommands ==
    /\ [][(LineRead /\ Typed \in {"quit", "exit", "q"}) =>
            process'.pc = "exited" /\ process'.status = 0]_vars
    /\ [][(LineRead /\ Typed \in {"help", "clear", "history", ""}) =>
            /\ process'.pc = "prompt"
            /\ UNCHANGED <<pc, decideCalls, user_query, generator>>
            /\ Typed # "clear" => UNCHANGED sessions]_vars
    /\ [][(LineRead /\ Typed = "clear") => sessions'["cli"].chat = FreshChat]_vars
    /\ [][(AtPrompt /\ LowerLine(process.user_input) = "clear"
                    /\ process'.pc = "busy") =>
            sessions'["cli"].chat.turns = <<>>]_vars
    /\ [][(process.front_end = "cli" /\ process.pc = "busy"
                /\ pc = "decide0" /\ pc' # "decide0") =>
            sessions'["cli"].chat.turns =
                CliTurns \o <<[role |-> "user", text |-> user_query,
                               responses |-> <<>>],
                              [role |-> "model", text |-> response'.text,
                               calls |-> Names(response'.calls)]>>]_vars

\* the second query came after a clear: its first decision call has
\* returned and the chat holds that exchange only
C28_Witness ==
    /\ process.front_end = "cli"
    /\ process.pc = "busy"
    /\ process.queries = 2
    /\ decideCalls = 1
    /\ pc = "loop"
    /\ Len(CliTurns) = 2
    /\ CliTurns[1].text = "explain the sun"

\* every function call the chat holds is followed by its function response
Answered(turns) ==
    \A k \in 1..Len(turns) :
        (turns[k].role = "model" /\ turns[k].calls # <<>>) =>
            /\ k < Len(turns)
            /\ turns[k + 1].responses = turns[k].calls

\* C29: between two requests no decision chat holds a function call
\* without its function response.
C29_NoDanglingCall ==
    process.pc = "prompt" =>
        \A s \in DOMAIN sessions : Answered(sessions[s].chat.turns)

\* C30: while a request of a browser session is served, every prompt the
\* chat of the composer holds was built from a message of that session.
C30_ComposerContextIsOwn ==
    (process.front_end = "gradio" /\ process.pc = "busy") =>
        \A k \in 1..Len(generator.turns) :
            QueryBlock(MessageOf(process.current)) \in SeqRange(generator.turns[k])

\* C31: between the calls of generate_response_stream on one
\* ResponseGeneratorTool, conversation_history holds two entries per call
\* made, a user prompt and then the assistant response, in call order.
C31_TwoEntriesPerCall ==
    generator.pc \in {"idle", "returned"} =>
        /\ Len(generator.conversation_history) = 2 * generator.calls
        /\ \A k \in 1..Len(generator.conversation_history) :
              generator.conversation_history[k].role =
                  IF k % 2 = 1 THEN "user" ELSE "assistant"

\* the user queries a decision chat has received: the user turns that carry
\* a text and no function responses
UserQueries(c) ==
    Cardinality({k \in 1..Len(c.turns) :
                    c.turns[k].role = "user" /\ c.turns[k].responses = <<>>})

\* C32: in the Gradio chat, between two events, the decision chat of a
\* session has received as many user queries since the last clear as its
\* history displays exchanges (retry_last replaces the last exchange on
\* both sides).
C32_ChatMatchesHistory ==
    (process.pc = "prompt" /\ process.front_end = "gradio") =>
        \A s \in DOMAIN sessions :
            UserQueries(sessions[s].chat) = Len(sessions[s].history)

\* both calls of the pair have returned, and the composer gave both the same
BothReturned ==
    /\ process.pc = "compared"
    /\ pc = "done"
    /\ termResponse = process.first.termResponse

\* C33: for the same query and the same script of decision responses,
\* process_query_with_chat (chat=None) and process_query_for_gradio execute
\* the same tool calls, make the same number of decision calls and return
\* the same final answer.
C33_GradioLoopsAgree ==
    BothReturned =>
        /\ RunSummary.tools = process.first.tools
        /\ RunSummary.rounds = process.first.rounds
        /\ RunSummary.decideCalls = process.first.decideCalls
        /\ RunSummary.answer = process.first.answer

\* the request being served has executed a lookup before its terminal call
LookupInRequest ==
    /\ Len(function_calls_list) > 1
    /\ function_calls_list[1].name = KnowledgeTool

\* an earlier request of the session being served shows a lookup in the chat
LookupInChatBefore ==
    /\ process.current \in DOMAIN sessions
    /\ LET turns == sessions[process.current].chat.turns
       IN \E k \in 1..Len(turns) :
            /\ turns[k].role = "model"
            /\ KnowledgeTool \in SeqRange(turns[k].calls)
            /\ \E j \in (k + 1)..Len(turns) :
                  turns[j].role = "user" /\ turns[j].responses = <<>>

\* C34: accumulated tool results are per request: a request starts with no
\* knowledge-level and no selection result, and its terminal call hands the
\* composer a knowledge level only if the request itself has looked one up,
\* whatever earlier requests of the same chat have accumulated.
C34_ResultsArePerRequest ==
    /\ pc = "decide0" =>
          knowledge_level_result = NoneVal /\ selected_files_result = NoneVal
    /\ composerCalls > 0 =>
          /\ composerArgs.selected_files = NoneVal
          /\ composerArgs.knowledge_level_info # NoneVal <=> LookupInRequest

\* a terminal call without a lookup in its request, in a chat that shows the
\* lookup of an earlier request
C34_Witness ==
    /\ composerCalls > 0
    /\ ~LookupInRequest
    /\ LookupInChatBefore
    /\ composerArgs.knowledge_level_info = NoneVal

\* the call executed last was a terminal call, and its payload was recorded
TerminalRecorded ==
    /\ function_responses # <<>>
    /\ function_responses[Len(function_responses)].name = TerminalTool

\* C35: in the payload of a terminal call used_knowledge_level is true only
\* if a knowledge-level result was passed to the composer, used_files is
\* true only if a non-empty list of files was passed, and response_length
\* is the length of response.
C35_PayloadTellsUse ==
    TerminalRecorded =>
        LET payload == function_responses[Len(function_responses)].response
        IN /\ payload.used_knowledge_level =>
                 composerArgs.knowledge_level_info # NoneVal
           /\ payload.used_files =>
                 FilesOf(composerArgs.selected_files) # <<>>
           /\ payload.response_length = Len(payload.response)

\* C36: a selection of a title the declaration enumerates never lands in
\* not_found: the SelectFileTool of the agent resolves every enumerated
\* title.
C36_EnumeratedTitlesResolve ==
    (process.descriptor # NoneVal /\ selected_files_result # NoneVal) =>
        \A t \in SeqRange(process.descriptor.enum) :
            t \notin SeqRange(selected_files_result.not_found)

\* s is the beginning of t
IsPrefix(s, t) == Len(s) <= Len(t) /\ s = SubSeq(t, 1, Len(s))

LastStored(t) ==
    LET files == Get(metadata, "files", <<>>)
        ks == {k \in 1..Len(files) : Lower(files[k].title) = Lower(t)}
    IN files[CHOOSE k \in ks : \A j \in ks : j <= k]

\* C38: select_files_by_titles matches titles up to case and returns the
\* title as the store spells it; a title requested twice is returned twice;
\* of two store entries with titles equal up to case the later one answers
\* every request for that title.
C38_TitlesMatchUpToCase ==
    \A k \in 1..Len(function_responses) :
        function_responses[k].name = SelectTool =>
            LET r == function_responses[k].response
                found == Requested(TitlesOf(k), TRUE)
            IN /\ Len(r.selected_files) = Len(found)
               /\ \A j \in 1..Len(found) :
                     /\ r.selected_files[j].title = LastStored(found[j]).title
                     /\ r.selected_files[j].file_path = LastStored(found[j]).file_path
                     /\ r.selected_files[j].file_uri = LastStored(found[j]).file_uri

\* a title asked for twice, in the spelling of the earlier of two entries,
\* is answered twice by the later entry
C38_Witness ==
    /\ Len(function_responses) = 1
    /\ metadata = TwinMetadata
    /\ TitlesOf(1) = <<"SUN.PDF", "SUN.PDF">>
    /\ Len(function_responses[1].response.selected_files) = 2
    /\ \A j \in 1..2 :
          /\ function_responses[1].response.selected_files[j].title = "Sun.pdf"
          /\ function_responses[1].response.selected_files[j].file_path = "files/Sun.pdf"

\* an empty or whitespace-only text
BlankText(q) == q \in {"", " "}

\* C39: a blank query is turned away before any work.  The two Gradio entry
\* points return the invalid-input message without a decision call or a
\* tool execution, and respond, given a blank message, leaves the history
\* and the chat of every session as they are (no chat is created) and does
\* not call the agent.
C39_BlankQueryIsRejected ==
    /\ []((pc = "done" /\ entry \in {WithChat, ForGradio} /\ BlankText(user_query)) =>
            /\ outcome = "invalid"
            /\ diagnostic = InvalidMsg
            /\ entry = WithChat => answer = InvalidMsg
            /\ decideCalls = 0
            /\ rounds = 0
            /\ composerCalls = 0
            /\ executed = <<>>)
    /\ [][(/\ process.pc = "prompt"
           /\ process'.pc = "prompt"
           /\ process'.user_input # process.user_input
           /\ BlankText(process'.user_input)) =>
                UNCHANGED <<sessions, loop, generator>>]_vars

\* respond has been given a whitespace-only message, and
\* process_query_with_chat an empty query
C39_Witness ==
    /\ process.pc = "prompt"
    /\ process.front_end = "gradio"
    /\ process.user_input = " "
    /\ pc = "done"
    /\ entry = WithChat
    /\ user_query = ""
    /\ outcome = "invalid"
    /\ \A s \in DOMAIN sessions : ~sessions[s].chat.created

====
